---- MODULE Spec2Model ----
(***************************************************************************)
(* HAK-GAL reasoning kernel: knowledge base K, proof cache, prover         *)
(* portfolio (Functional Constraint Prover, Pattern Matcher, Z3 adapter,   *)
(* Wolfram oracle), complexity analyzer, portfolio manager, persistence.   *)
(*                                                                         *)
(* A formula string is modelled as the sequence of its lexical tokens      *)
(* (whitespace, which the grammar ignores, is dropped).  Two strings of    *)
(* the model are equal iff their token sequences are equal; the formulas   *)
(* fed to the model are written with one canonical spacing.                *)
(***************************************************************************)
EXTENDS Integers, Sequences, FiniteSets, TLC

(***************************************************************************)
(* Lexical classes of backend/core/grammar.py                              *)
(***************************************************************************)
\* tokens matching the terminal PREDICATE (capitalised identifiers)
PREDICATE ==
    {"IsPhilosopher", "Socrates", "Hauptstadt", "Frankreich", "Paris", "Berlin",
     "Einwohner", "LiegtIn", "Fläche", "Bevölkerung", "Geburtsjahr", "Temperatur",
     "LäuftAuf", "Linux", "VerwendetShell", "PythonVersion", "HauptstadtVon"}

\* tokens matching the terminal VAR (lower-case identifiers)
VAR == {"x", "y", "z", "bash"}

\* tokens matching the terminal NUMBER (digits with underscore grouping)
NUMBER == {"3_11_4"}

(***************************************************************************)
(* HAKGALParser.parse with the Lark LALR grammar: a recogniser.  Each      *)
(* Parse<rule>(s, i) is the set of positions j such that tokens i..j-1 of  *)
(* s derive <rule>.                                                        *)
(***************************************************************************)
Tok(s, i) == IF i \in 1..Len(s) THEN s[i] ELSE "<eof>"

RECURSIVE ParseArgList(_, _)
ParseArgList(s, i) ==
    IF Tok(s, i) \in PREDICATE \cup VAR \cup NUMBER
    THEN {i + 1} \cup (IF Tok(s, i + 1) = "," THEN ParseArgList(s, i + 2) ELSE {})
    ELSE {}

ParseAtom(s, i) ==
    IF Tok(s, i) \in PREDICATE
    THEN {i + 1}
         \cup (IF Tok(s, i + 1) = "("
               THEN (IF Tok(s, i + 2) = ")" THEN {i + 3} ELSE {})
                    \cup {j + 1 : j \in {k \in ParseArgList(s, i + 2) : Tok(s, k) = ")"}}
               ELSE {})
    ELSE {}

RECURSIVE ParseExpression(_, _), ParseImplication(_, _), ParseDisjunction(_, _),
          ParseConjunction(_, _), ParseNegation(_, _), ParseAtomExpression(_, _),
          ParseQuantified(_, _)

ParseAtomExpression(s, i) ==
    ParseAtom(s, i)
    \cup (IF Tok(s, i) = "("
          THEN {j + 1 : j \in {k \in ParseExpression(s, i + 1) : Tok(s, k) = ")"}}
          ELSE {})

ParseNegation(s, i) ==
    IF Tok(s, i) = "-" THEN ParseAtomExpression(s, i + 1) ELSE ParseAtomExpression(s, i)

ParseConjunction(s, i) ==
    LET first == ParseNegation(s, i)
    IN  first \cup UNION {ParseConjunction(s, j + 1) : j \in {k \in first : Tok(s, k) = "&"}}

ParseDisjunction(s, i) ==
    LET first == ParseConjunction(s, i)
    IN  first \cup UNION {ParseDisjunction(s, j + 1) : j \in {k \in first : Tok(s, k) = "|"}}

ParseImplication(s, i) ==
    LET first == ParseDisjunction(s, i)
    IN  first \cup UNION {ParseImplication(s, j + 1) : j \in {k \in first : Tok(s, k) = "->"}}

ParseQuantified(s, i) ==
    IF Tok(s, i) = "all" /\ Tok(s, i + 1) \in VAR /\ Tok(s, i + 2) = "("
    THEN {j + 1 : j \in {k \in ParseExpression(s, i + 3) : Tok(s, k) = ")"}}
    ELSE {}

ParseExpression(s, i) == ParseQuantified(s, i) \cup ParseImplication(s, i)

\* parse(formula)[0]: formula: expression "."
Parse(s) == \E j \in ParseExpression(s, 1) : j = Len(s) /\ Tok(s, j) = "."

(***************************************************************************)
(* String helpers on token sequences                                       *)
(***************************************************************************)
\* f"-{s}" if not s.startswith('-') else s[1:]
Negate(s) == IF Len(s) > 0 /\ s[1] = "-" THEN Tail(s) ELSE <<"-">> \o s

\* s.strip().rstrip('.') / removesuffix('.') on a formula with one final period
RECURSIVE RStripPeriod(_)
RStripPeriod(s) ==
    IF Len(s) > 0 /\ s[Len(s)] = "." THEN RStripPeriod(SubSeq(s, 1, Len(s) - 1)) ELSE s

\* position of the first ")" at or after i, 0 if none
RECURSIVE FirstClose(_, _)
FirstClose(s, i) ==
    IF i > Len(s) THEN 0 ELSE IF s[i] = ")" THEN i ELSE FirstClose(s, i + 1)

\* [arg.strip() for arg in args.split(',')] on the tokens of an argument string
RECURSIVE SplitComma(_)
SplitComma(s) ==
    IF \E i \in 1..Len(s) : s[i] = ","
    THEN LET i == CHOOSE k \in 1..Len(s) : s[k] = "," /\ \A m \in 1..(k - 1) : s[m] # ","
         IN  <<SubSeq(s, 1, i - 1)>> \o SplitComma(SubSeq(s, i + 1, Len(s)))
    ELSE <<s>>

\* re.match(r'([A-Z...][\w]*)\(([^)]+)\)', s): the predicate and argument tokens, or "no match"
NoMatch == [ok |-> FALSE, pred |-> "", args |-> <<>>]
AtomMatch(s) ==
    IF Len(s) >= 4 /\ s[1] \in PREDICATE /\ s[2] = "(" /\ FirstClose(s, 3) > 3
    THEN [ok |-> TRUE, pred |-> s[1], args |-> SplitComma(SubSeq(s, 3, FirstClose(s, 3) - 1))]
    ELSE NoMatch

(***************************************************************************)
(* Provers.  A result is [success, reason, raised]; success is "proved"    *)
(* (True), "refuted" (False) or "unknown" (None); a reason is the message  *)
(* template with the values interpolated into it.                          *)
(***************************************************************************)
PatternName == "Pattern Matcher"
FunctionalName == "Functional Constraint Prover"
Z3Name == "Z3 SMT Solver"
WolframName == "Wolfram|Alpha Orakel"

\* every interpolated value is a token sequence; a name is the one-token sequence of it
Reason(text, args) == [text |-> text, args |-> args]

RECURSIVE Flatten(_)
Flatten(ss) == IF ss = <<>> THEN <<>> ELSE Head(ss) \o Flatten(Tail(ss))
Result(success, reason) == [success |-> success, reason |-> reason, raised |-> FALSE]
Raised(reason) == [success |-> "unknown", reason |-> reason, raised |-> TRUE]

\* PatternProver.prove
\* the bug of looking for the negation before the exact match
PatternProveNegationFirst(assumptions, goal) ==
    IF \E i \in 1..Len(assumptions) : assumptions[i] = Negate(goal)
    THEN Result("refuted", Reason("{name} fand Widerspruch für '{goal}'.", <<<<PatternName>>, goal>>))
    ELSE IF \E i \in 1..Len(assumptions) : assumptions[i] = goal
    THEN Result("proved", Reason("{name} fand exakten Match für '{goal}'.", <<<<PatternName>>, goal>>))
    ELSE Result("unknown", Reason("{name} fand keine Übereinstimmung.", <<<<PatternName>>>>))

\* the bug of answering False instead of None when nothing matches
PatternProveNoMatchFalse(assumptions, goal) ==
    IF \E i \in 1..Len(assumptions) : assumptions[i] = goal
    THEN Result("proved", Reason("{name} fand exakten Match für '{goal}'.", <<<<PatternName>>, goal>>))
    ELSE Result("refuted", Reason("{name} fand Widerspruch für '{goal}'.", <<<<PatternName>>, goal>>))

PatternProve(assumptions, goal) ==
    IF \E i \in 1..Len(assumptions) : assumptions[i] = goal
    THEN Result("proved", Reason("{name} fand exakten Match für '{goal}'.", <<<<PatternName>>, goal>>))
    ELSE IF \E i \in 1..Len(assumptions) : assumptions[i] = Negate(goal)
    THEN Result("refuted", Reason("{name} fand Widerspruch für '{goal}'.", <<<<PatternName>>, goal>>))
    ELSE Result("unknown", Reason("{name} fand keine Übereinstimmung.", <<<<PatternName>>>>))

\* FunctionalConstraintProver.functional_predicates
functional_predicates ==
    {"Einwohner", "Hauptstadt", "Bevölkerung", "Fläche", "Temperatur", "Geburtsjahr", "LiegtIn"}

\* an assumption conflicts: same predicate, same arity >= 2, same leading args, other last arg
FunctionalConflict(assumption, g) ==
    LET a == AtomMatch(RStripPeriod(assumption))
    IN  /\ a.ok
        /\ a.pred = g.pred
        /\ Len(a.args) = Len(g.args)
        /\ Len(a.args) >= 2
        /\ SubSeq(a.args, 1, Len(a.args) - 1) = SubSeq(g.args, 1, Len(g.args) - 1)
        /\ a.args[Len(a.args)] # g.args[Len(g.args)]

\* the bug of confirming a goal whose binding is among the assumptions
FunctionalProveConfirms(assumptions, goal) ==
    IF \E i \in 1..Len(assumptions) : assumptions[i] = goal
    THEN Result("proved", Reason("{name}: Bindung bestätigt", <<<<FunctionalName>>>>))
    ELSE Result("unknown", Reason("{name}: Kein funktionaler Widerspruch gefunden",
                                  <<<<FunctionalName>>>>))

\* FunctionalConstraintProver.prove
FunctionalProve(assumptions, goal) ==
    LET g == AtomMatch(RStripPeriod(goal))
    IN  IF ~g.ok
        THEN Result("unknown", Reason("{name}: Kein atomares Prädikat erkannt in '{goal}'",
                                      <<<<FunctionalName>>, RStripPeriod(goal)>>))
        ELSE IF g.pred \notin functional_predicates
        THEN Result("unknown", Reason("{name}: '{pred}' ist nicht funktional",
                                      <<<<FunctionalName>>, <<g.pred>>>>))
        ELSE IF \E i \in 1..Len(assumptions) : FunctionalConflict(assumptions[i], g)
        THEN LET i == CHOOSE k \in 1..Len(assumptions) :
                          /\ FunctionalConflict(assumptions[k], g)
                          /\ \A m \in 1..(k - 1) : ~FunctionalConflict(assumptions[m], g)
                 a == AtomMatch(RStripPeriod(assumptions[i]))
             IN  Result("refuted",
                        Reason("{name}: Funktionaler Widerspruch - {pred} kann für {args} nicht sowohl {old} als auch {new} sein",
                               <<<<FunctionalName>>, <<g.pred>>,
                                 Flatten(SubSeq(a.args, 1, Len(a.args) - 1)),
                                 a.args[Len(a.args)], g.args[Len(g.args)]>>))
        ELSE Result("unknown", Reason("{name}: Kein funktionaler Widerspruch gefunden",
                                      <<<<FunctionalName>>>>))

(***************************************************************************)
(* Z3Adapter.  The formulas of the model are literals (an atom under any   *)
(* number of leading "-") and the shipped functional-dependency axioms.    *)
(* _parse_hakgal_formula_to_z3_expr turns a literal into a (negated)       *)
(* application of an uninterpreted predicate to integer constants, and a   *)
(* quantified formula into a ForAll.  In the shipped axioms the consequent *)
(* "(y = z)" is split at "=" before the parentheses are removed, so it     *)
(* becomes an equation between two constants that no other formula names:  *)
(* an interpretation that makes them equal satisfies every axiom, whatever *)
(* the literals say.  Distinct identifiers are distinct integer constants  *)
(* that an interpretation may or may not identify.  A set of such          *)
(* constraints is therefore unsatisfiable iff it holds an atom and its     *)
(* negation, and the solver decides this fragment.                         *)
(***************************************************************************)
IsOperatorToken(t) == t \in {"->", "|", "&"}

RECURSIVE Z3Expr(_)
Z3Expr(s) ==
    IF Len(s) = 0 THEN [kind |-> "error"]
    ELSE IF s[1] = "-"
    THEN LET e == Z3Expr(Tail(s))
         IN  IF e.kind = "lit" THEN [e EXCEPT !.neg = ~e.neg] ELSE [kind |-> "error"]
    ELSE IF s[1] = "all" THEN [kind |-> "forall"]
    ELSE IF AtomMatch(s).ok /\ FirstClose(s, 3) = Len(s)
    THEN [kind |-> "lit", neg |-> FALSE, pred |-> s[1], args |-> AtomMatch(s).args]
    ELSE IF Len(s) = 3 /\ s[1] \in PREDICATE /\ s[2] = "(" /\ s[3] = ")"
    THEN [kind |-> "lit", neg |-> FALSE, pred |-> s[1], args |-> <<>>]
    ELSE IF Len(s) = 1 /\ s[1] \in PREDICATE
    THEN [kind |-> "lit", neg |-> FALSE, pred |-> s[1], args |-> <<>>]
    ELSE [kind |-> "error"]

\* formula_str.strip().removesuffix('.')
RemoveSuffixPeriod(s) ==
    IF Len(s) > 0 /\ s[Len(s)] = "." THEN SubSeq(s, 1, Len(s) - 1) ELSE s

Z3Translate(s) == Z3Expr(RemoveSuffixPeriod(s))

(***************************************************************************)
(* _parse_hakgal_formula_to_z3_expr in full, as the expression it builds:  *)
(* the text between two delimiters is a sequence of tokens, and the name   *)
(* of an integer constant is the text it was made from                     *)
(***************************************************************************)
\* z3.IntVal(int(...)) for a number, z3.Int(text) for any other text, whether or not
\* the text is in quantified_vars
Z3Term(text) ==
    IF Len(text) = 1 /\ text[1] \in NUMBER
    THEN [kind |-> "intval", name |-> text]
    ELSE [kind |-> "int", name |-> text]

\* _find_top_level_operator(s, [op]): the rightmost occurrence of op with as many ")"
\* as "(" to its right, 0 if there is none
FindTopLevelOperator(s, op) ==
    LET right(i, t) == Cardinality({j \in (i + 1)..Len(s) : s[j] = t})
        found == {i \in 1..Len(s) : s[i] = op /\ right(i, ")") = right(i, "(")}
    IN  IF found = {} THEN 0 ELSE CHOOSE i \in found : \A j \in found : j <= i

\* f"all {var} ({result})" for var in reversed(vars)
RECURSIVE WrapQuantifiers(_, _)
WrapQuantifiers(vars, body) ==
    IF vars = <<>> THEN body
    ELSE <<"all", Head(vars), "(">> \o WrapQuantifiers(Tail(vars), body) \o <<")">>

RECURSIVE ParseHakgalFormulaToZ3Expr(_, _)
ParseHakgalFormulaToZ3Expr(formula_str, quantified_vars) ==
    LET expr == RemoveSuffixPeriod(formula_str)
        n == Len(expr)
        equals == {i \in 1..n : expr[i] = "="}
        implies == FindTopLevelOperator(expr, "->")
        or == FindTopLevelOperator(expr, "|")
        and == FindTopLevelOperator(expr, "&")
        \* raise ValueError, and the exception of a part, which ends the translation
        Z3Error == [kind |-> "error"]
        \* op_func(left_expr, right_expr)
        split(i) ==
            LET left_expr == ParseHakgalFormulaToZ3Expr(SubSeq(expr, 1, i - 1), quantified_vars)
                right_expr == ParseHakgalFormulaToZ3Expr(SubSeq(expr, i + 1, n), quantified_vars)
            IN  IF left_expr.kind = "error" \/ right_expr.kind = "error" THEN Z3Error
                ELSE [kind |-> expr[i], left |-> left_expr, right |-> right_expr]
        quantifiers == {i \in 1..n : expr[i] = "all" /\ Tok(expr, i + 1) \in VAR \cup PREDICATE \cup NUMBER}
        forall(var_name, body) ==
            LET body_expr == ParseHakgalFormulaToZ3Expr(body, quantified_vars \cup {var_name})
            IN  IF body_expr.kind = "error" THEN Z3Error
                ELSE [kind |-> "forall", var |-> var_name, body |-> body_expr]
    IN  IF /\ Cardinality(equals) = 1
           /\ \A i \in 1..n : ~IsOperatorToken(expr[i])
        THEN LET i == CHOOSE k \in equals : TRUE
             IN  [kind |-> "eq", left |-> Z3Term(SubSeq(expr, 1, i - 1)),
                  right |-> Z3Term(SubSeq(expr, i + 1, n))]
        ELSE IF implies > 0 THEN split(implies)
        ELSE IF or > 0 THEN split(or)
        ELSE IF and > 0 THEN split(and)
        ELSE IF n > 0 /\ expr[1] = "-"
        THEN LET e == ParseHakgalFormulaToZ3Expr(Tail(expr), quantified_vars)
             IN  IF e.kind = "error" THEN Z3Error ELSE [kind |-> "not", arg |-> e]
        ELSE IF n > 0 /\ expr[1] = "all"
        THEN IF 1 \in quantifiers /\ Tok(expr, 3) = "(" /\ expr[n] = ")" /\ n >= 4
             THEN forall(expr[2], SubSeq(expr, 4, n - 1))
             ELSE IF 1 \in quantifiers /\ Tok(expr, 3) = "all"
             THEN LET last_match == CHOOSE i \in quantifiers : \A j \in quantifiers : j <= i
                      inner == SelectSeq([i \in 1..n |-> IF i - 1 \in quantifiers /\ i > 2
                                                        THEN expr[i] ELSE ""],
                                         LAMBDA v : v # "")
                  IN  forall(expr[2], WrapQuantifiers(inner, SubSeq(expr, last_match + 2, n)))
             ELSE Z3Error
        ELSE IF n >= 2 /\ expr[1] = "(" /\ expr[n] = ")"
        THEN ParseHakgalFormulaToZ3Expr(SubSeq(expr, 2, n - 1), quantified_vars)
        ELSE IF n >= 3 /\ expr[1] \in PREDICATE /\ expr[2] = "(" /\ FirstClose(expr, 3) >= 3
        THEN LET args == SubSeq(expr, 3, FirstClose(expr, 3) - 1)
                 split_args == IF args = <<>> THEN <<>> ELSE SplitComma(args)
             IN  [kind |-> "app", pred |-> expr[1],
                  args |-> [i \in 1..Len(SelectSeq(split_args, LAMBDA a : a # <<>>)) |->
                               Z3Term(SelectSeq(split_args, LAMBDA a : a # <<>>)[i])]]
        ELSE IF n = 1 /\ expr[1] \in PREDICATE
        THEN [kind |-> "app", pred |-> expr[1], args |-> <<>>]
        ELSE Z3Error

\* solver.check() on the added constraints
Z3Check(constraints) ==
    IF \E a \in constraints, b \in constraints :
          /\ a.kind = "lit" /\ b.kind = "lit"
          /\ a.pred = b.pred /\ a.args = b.args /\ a.neg # b.neg
    THEN "unsat" ELSE "sat"

\* the bug of answering None, not False, when the solver finds a counter-model
Z3ProveSatUnknown(assumptions, goal, z3, raises) ==
    IF z3 = "absent" THEN Result("unknown", Reason("Z3 nicht verfügbar", <<>>))
    ELSE LET facts == {Z3Translate(assumptions[i]) : i \in 1..Len(assumptions)}
             g == Z3Translate(goal)
         IN  IF g.kind = "error" \/ \E e \in facts : e.kind = "error"
             THEN Result("unknown", Reason("Fehler beim Parsen: {e}", <<>>))
             ELSE IF raises THEN Raised(Reason("{e}", <<>>))
             ELSE IF Z3Check(facts \cup {[g EXCEPT !.neg = ~g.neg]}) = "unsat"
             THEN Result("proved", Reason("Z3 hat das Ziel bewiesen.", <<>>))
             ELSE Result("unknown",
                         Reason("Z3 konnte das Ziel nicht beweisen (Gegenmodell):{model}", <<>>))

\* Z3Adapter.prove; z3 is the import of the solver ("absent" when it failed),
\* raises tells whether solver.check() raises
Z3Prove(assumptions, goal, z3, raises) ==
    IF z3 = "absent" THEN Result("unknown", Reason("Z3 nicht verfügbar", <<>>))
    ELSE LET facts == {Z3Translate(assumptions[i]) : i \in 1..Len(assumptions)}
             g == Z3Translate(goal)
         IN  IF g.kind = "error" \/ \E e \in facts : e.kind = "error"
             THEN Result("unknown", Reason("Fehler beim Parsen: {e}", <<>>))
             ELSE IF raises THEN Raised(Reason("{e}", <<>>))
             ELSE IF Z3Check(facts \cup {[g EXCEPT !.neg = ~g.neg]}) = "unsat"
             THEN Result("proved", Reason("Z3 hat das Ziel bewiesen.", <<>>))
             ELSE Result("refuted",
                         Reason("Z3 konnte das Ziel nicht beweisen (Gegenmodell):{model}", <<>>))

(***************************************************************************)
(* WolframProver                                                           *)
(***************************************************************************)
\* the words _simple_translate's fallback makes of an identifier: split at capitals,
\* lower-cased, German terms translated
FallbackWords ==
    [t \in PREDICATE \cup VAR \cup NUMBER |->
        CASE t = "IsPhilosopher" -> <<"is", "philosopher">>
          [] t = "Socrates" -> <<"socrates">>
          [] t = "Hauptstadt" -> <<"capital">>
          [] t = "HauptstadtVon" -> <<"capital", "von">>
          [] t = "Frankreich" -> <<"france">>
          [] t = "Paris" -> <<"paris">>
          [] t = "Berlin" -> <<"berlin">>
          [] OTHER -> <<t>>]

RECURSIVE FallbackQuery(_)
FallbackQuery(s) ==
    IF s = <<>> THEN <<>>
    ELSE (CASE Head(s) = "(" -> <<"of">>
            [] Head(s) = ")" -> <<>>
            [] Head(s) = "," -> <<"and">>
            [] Head(s) \in DOMAIN FallbackWords -> FallbackWords[Head(s)]
            [] OTHER -> <<Head(s)>>) \o FallbackQuery(Tail(s))

\* WolframProver._simple_translate: the query as a sequence of words
SimpleTranslate(goal) ==
    LET f == RemoveSuffixPeriod(goal)
    IN  IF \E i \in 1..Len(f) : f[i] = "HauptstadtVon" /\ Tok(f, i + 1) = "(" /\ FirstClose(f, i + 2) > i + 2
        THEN LET i == CHOOSE k \in 1..Len(f) :
                          f[k] = "HauptstadtVon" /\ Tok(f, k + 1) = "(" /\ FirstClose(f, k + 2) > k + 2
             IN  <<"capital", "of">> \o FallbackQuery(SubSeq(f, i + 2, FirstClose(f, i + 2) - 1))
        ELSE FallbackQuery(f)

\* WolframProver.prove.  client: whether the API client is configured; wcache: the
\* adapter's cache (query -> verdict, reason and age of the entry); oracle: what the
\* HTTP call yields, "answer" (a usable answer is extracted), "none" (no usable answer)
\* or "error" (the call fails).  The result also carries put, the set of cache entries
\* _cache_result stores, and requested, whether urlopen was called.
WolframResult(success, reason, put, requested) ==
    [success |-> success, reason |-> reason, raised |-> FALSE, put |-> put,
     requested |-> requested]

\* self.cache_timeout, in seconds
cache_timeout == 3600

\* the bug of returning an entry of the cache whatever its age
WolframFreshIgnoresAge(query, wcache) == query \in DOMAIN wcache

\* the cache check of prove: an entry for the query that is younger than the timeout
WolframFresh(query, wcache) ==
    query \in DOMAIN wcache /\ wcache[query].age < cache_timeout

\* the bug of storing the outcome of a call that extracted no usable answer
WolframAskCachesNoAnswer(query, oracle) ==
    IF oracle = "answer"
    THEN LET r == IF \E i \in 1..Len(query) : query[i] = "capital"
                  THEN Reason("Hauptstadt: {answer}", <<>>)
                  ELSE Reason("Wolfram: {answer}", <<>>)
         IN  WolframResult("proved", r, {<<query, "proved", r>>}, TRUE)
    ELSE IF oracle = "none"
    THEN LET r == Reason("Keine verwertbare Antwort von Wolfram Alpha", <<>>)
         IN  WolframResult("unknown", r, {<<query, "unknown", r>>}, TRUE)
    ELSE WolframResult("unknown", Reason("Wolfram-Fehler: {type}", <<>>), {}, TRUE)

\* the bug of taking a response without a usable answer for a refutation
WolframAskRefutes(query, oracle) ==
    IF oracle = "answer"
    THEN LET r == IF \E i \in 1..Len(query) : query[i] = "capital"
                  THEN Reason("Hauptstadt: {answer}", <<>>)
                  ELSE Reason("Wolfram: {answer}", <<>>)
         IN  WolframResult("proved", r, {<<query, "proved", r>>}, TRUE)
    ELSE IF oracle = "none"
    THEN WolframResult("refuted", Reason("Keine verwertbare Antwort von Wolfram Alpha", <<>>),
                       {}, TRUE)
    ELSE WolframResult("unknown", Reason("Wolfram-Fehler: {type}", <<>>), {}, TRUE)

\* the HTTP call of prove and the interpretation of its response
WolframAsk(query, oracle) ==
    IF oracle = "answer"
    THEN LET r == IF \E i \in 1..Len(query) : query[i] = "capital"
                  THEN Reason("Hauptstadt: {answer}", <<>>)
                  ELSE Reason("Wolfram: {answer}", <<>>)
         IN  WolframResult("proved", r, {<<query, "proved", r>>}, TRUE)
    ELSE IF oracle = "none"
    THEN WolframResult("unknown", Reason("Keine verwertbare Antwort von Wolfram Alpha", <<>>),
                       {}, TRUE)
    ELSE WolframResult("unknown", Reason("Wolfram-Fehler: {type}", <<>>), {}, TRUE)

\* the bug of asking the endpoint without looking into the adapter's cache
WolframProveUncached(goal, client, wcache, oracle) ==
    IF ~client
    THEN WolframResult("unknown", Reason("WolframProver ist nicht konfiguriert.", <<>>), {}, FALSE)
    ELSE IF \E i \in 1..Len(goal) : goal[i] \in {"->", "&", "|", "all"}
    THEN WolframResult("unknown", Reason("WolframProver unterstützt nur atomare Fakten.", <<>>),
                       {}, FALSE)
    ELSE LET query == SimpleTranslate(goal)
         IN  IF query = <<>>
             THEN WolframResult("unknown", Reason("Konnte Formel nicht übersetzen.", <<>>),
                                {}, FALSE)
             ELSE WolframAsk(query, oracle)

WolframProve(goal, client, wcache, oracle) ==
    IF ~client
    THEN WolframResult("unknown", Reason("WolframProver ist nicht konfiguriert.", <<>>), {}, FALSE)
    ELSE IF \E i \in 1..Len(goal) : goal[i] \in {"->", "&", "|", "all"}
    THEN WolframResult("unknown", Reason("WolframProver unterstützt nur atomare Fakten.", <<>>),
                       {}, FALSE)
    ELSE LET query == SimpleTranslate(goal)
         IN  IF query = <<>>
             THEN WolframResult("unknown", Reason("Konnte Formel nicht übersetzen.", <<>>),
                                {}, FALSE)
             ELSE IF WolframFresh(query, wcache)
             THEN WolframResult(wcache[query].success,
                                Reason(wcache[query].text \o " (aus Cache)", wcache[query].args),
                                {}, FALSE)
             ELSE WolframAsk(query, oracle)

\* WolframProver._cache_result for every entry of put: self.cache[query] =
\* (result[0], result[1], time.time()); the new entry has the age 0
CacheResult(wcache, put) ==
    [q \in DOMAIN wcache \cup {e[1] : e \in put} |->
        IF \E e \in put : e[1] = q
        THEN LET e == CHOOSE e \in put : e[1] = q
             IN  [success |-> e[2], text |-> e[3].text, args |-> e[3].args, age |-> 0]
        ELSE wcache[q]]

(***************************************************************************)
(* ComplexityAnalyzer                                                      *)
(***************************************************************************)
\* ComplexityAnalyzer.__init__: oracle_predicates
InitialOraclePredicates ==
    {"Bevölkerungsdichte", "HauptstadtVon", "WetterIn", "TemperaturIn", "Integral",
     "AbleitungVon", "WährungVon", "FlächeVon", "Bevölkerung", "ZeitzoneVon",
     "AktuelleZeit", "Umrechnung", "Einheit", "Lösung", "Faktorisierung",
     "IstGroesserAls", "IstKleinerAls", "Einwohner", "Hauptstadt"}

\* the identifiers of the model that one of oracle_patterns matches (case-insensitive):
\* ...von, ...in, berechne..., and those containing temperatur, wetter, hauptstadt,
\* währung or bevölkerung
OraclePatternTokens ==
    {"Hauptstadt", "HauptstadtVon", "LiegtIn", "Temperatur", "Bevölkerung", "Berlin"}

\* the tokens of the model that one of mathematical_patterns finds
MathematicalTokens == {}

\* unit suffixes of the requires-oracle regex, as tokens
UnitTokens == {"km", "kg", "meter", "grad"}

\* re.match(r'([A-Z...][a-zA-Z...0-9_]*)', formula.strip())
LeadingPredicate(formula) ==
    IF Len(formula) > 0 /\ formula[1] \in PREDICATE THEN formula[1] ELSE ""

MathPattern(formula) == \E i \in 1..Len(formula) : formula[i] \in MathematicalTokens

\* ComplexityAnalyzer._requires_oracle_analysis
RequiresOracle(predicate, formula, oracle_preds) ==
    \/ predicate \in oracle_preds
    \/ predicate \in OraclePatternTokens
    \/ \E i \in 1..Len(formula), j \in 1..Len(formula) :
          i < j /\ formula[i] \in NUMBER /\ formula[j] \in UnitTokens
    \/ MathPattern(formula)

\* ComplexityAnalyzer._determine_query_type
DetermineQueryType(predicate, formula, oracle_preds) ==
    IF MathPattern(formula) THEN "mathematical"
    ELSE IF RequiresOracle(predicate, formula, oracle_preds) THEN "knowledge"
    ELSE IF \E i \in 1..Len(formula) : formula[i] \in {"->", "&", "|", "all"} THEN "logic"
    ELSE "mixed"

\* len(re.findall(pattern, formula)) for a pattern that matches the tokens of toks
RECURSIVE CountTokens(_, _)
CountTokens(formula, toks) ==
    IF formula = <<>> THEN 0
    ELSE (IF Head(formula) \in toks THEN 1 ELSE 0) + CountTokens(Tail(formula), toks)

\* ComplexityAnalyzer._estimate_complexity
EstimateComplexity(formula) ==
    LET \* ComplexityAnalyzer.high_complexity_patterns: "all" before a word, "->" before
        \* "all", three "&"
        high_complexity_pattern ==
            \/ \E i \in 1..Len(formula) :
                  /\ formula[i] = "all"
                  /\ Tok(formula, i + 1) \in PREDICATE \cup VAR \cup NUMBER \cup {"all"}
            \/ \E i \in 1..Len(formula) : formula[i] = "->" /\ Tok(formula, i + 1) = "all"
            \/ CountTokens(formula, {"&"}) >= 3
    IN
    IF high_complexity_pattern THEN "high"
    ELSE IF CountTokens(formula, {"&", "|", "->", "-"}) > 1 THEN "medium"
    ELSE IF /\ Len(formula) >= 4
            /\ formula[1] \in PREDICATE
            /\ formula[2] = "("
            /\ FirstClose(formula, 3) = Len(formula) - 1
            /\ formula[Len(formula)] = "."
    THEN "low"
    ELSE "unknown"

\* the bug of recommending the provers in the order of the default portfolio
RecommendProversPortfolioOrder(query_type, requires_oracle, client) ==
    (IF requires_oracle /\ client THEN <<WolframName>> ELSE <<>>)
    \o <<FunctionalName, PatternName>>
    \o (IF query_type \in {"logic", "mixed"} THEN <<Z3Name>> ELSE <<>>)

\* the bug of recommending the oracle without looking at WolframProver().client
RecommendProversOracleUnchecked(query_type, requires_oracle, client) ==
    (IF requires_oracle THEN <<WolframName>> ELSE <<>>)
    \o <<FunctionalName>>
    \o (IF query_type \in {"logic", "mixed"} THEN <<Z3Name>> ELSE <<>>)
    \o <<PatternName>>

\* ComplexityAnalyzer._recommend_provers; client: whether WolframProver().client is set
RecommendProvers(query_type, requires_oracle, client) ==
    (IF requires_oracle /\ client THEN <<WolframName>> ELSE <<>>)
    \o <<FunctionalName>>
    \o (IF query_type \in {"logic", "mixed"} THEN <<Z3Name>> ELSE <<>>)
    \o <<PatternName>>

\* ComplexityAnalyzer.analyze: the report's recommended_provers
Recommended(formula, oracle_preds, client) ==
    LET predicate == LeadingPredicate(formula)
    IN  RecommendProvers(DetermineQueryType(predicate, formula, oracle_preds),
                         RequiresOracle(predicate, formula, oracle_preds), client)

(***************************************************************************)
(* ProverPortfolioManager                                                  *)
(***************************************************************************)
InSeq(x, s) == \E i \in 1..Len(s) : s[i] = x

\* the bug of leaving out the second loop, over the provers not recommended
SelectProverStrategyRecommendedOnly(recommended, available_provers) ==
    SelectSeq(recommended, LAMBDA n : InSeq(n, available_provers))

\* ProverPortfolioManager.select_prover_strategy
SelectProverStrategy(recommended, available_provers) ==
    LET first == SelectSeq(recommended, LAMBDA n : InSeq(n, available_provers))
    IN  first \o SelectSeq(available_provers, LAMBDA n : ~InSeq(n, first))

RECURSIVE GCD(_, _)
GCD(a, b) == IF b = 0 THEN a ELSE GCD(b, a % b)

\* a rate n/d in lowest terms
Rate(n, d) == IF n = 0 THEN <<0, 1>> ELSE <<n \div GCD(n, d), d \div GCD(n, d)>>

\* the bug of counting an invocation twice
UpdatePerformanceCountsTwice(stats, prover_name, success) ==
    LET current_count == IF prover_name \in DOMAIN stats.usage THEN stats.usage[prover_name] ELSE 0
        current == IF prover_name \in DOMAIN stats.perf THEN stats.perf[prover_name] ELSE <<0, 1>>
        new_success_rate ==
            Rate(current[1] * current_count + (IF success THEN 1 ELSE 0) * current[2],
                 current[2] * (current_count + 1))
    IN  [perf |-> [n \in DOMAIN stats.perf \cup {prover_name} |->
                      IF n = prover_name THEN new_success_rate ELSE stats.perf[n]],
         usage |-> [n \in DOMAIN stats.usage \cup {prover_name} |->
                      IF n = prover_name THEN current_count + 2 ELSE stats.usage[n]]]

\* the bug of overwriting the rate by the latest outcome instead of averaging
UpdatePerformanceLatestOnly(stats, prover_name, success) ==
    LET current_count == IF prover_name \in DOMAIN stats.usage THEN stats.usage[prover_name] ELSE 0
    IN  [perf |-> [n \in DOMAIN stats.perf \cup {prover_name} |->
                      IF n = prover_name THEN (IF success THEN <<1, 1>> ELSE <<0, 1>>)
                      ELSE stats.perf[n]],
         usage |-> [n \in DOMAIN stats.usage \cup {prover_name} |->
                      IF n = prover_name THEN current_count + 1 ELSE stats.usage[n]]]

\* ProverPortfolioManager.update_performance on the records perf (prover_performance,
\* the rate a fraction <<n, d>>) and usage (prover_usage_count); durations, which are
\* wall-clock measurements, are not modelled
UpdatePerformance(stats, prover_name, success) ==
    LET current_count == IF prover_name \in DOMAIN stats.usage THEN stats.usage[prover_name] ELSE 0
        current == IF prover_name \in DOMAIN stats.perf THEN stats.perf[prover_name] ELSE <<0, 1>>
        new_success_rate ==
            Rate(current[1] * current_count + (IF success THEN 1 ELSE 0) * current[2],
                 current[2] * (current_count + 1))
    IN  [perf |-> [n \in DOMAIN stats.perf \cup {prover_name} |->
                      IF n = prover_name THEN new_success_rate ELSE stats.perf[n]],
         usage |-> [n \in DOMAIN stats.usage \cup {prover_name} |->
                      IF n = prover_name THEN current_count + 1 ELSE stats.usage[n]]]

(***************************************************************************)
(* Formulas fed to the model                                               *)
(***************************************************************************)
Atom1(p, a) == <<p, "(", a, ")", ".">>
Atom2(p, a, b) == <<p, "(", a, ",", b, ")", ".">>

IsPhilosopherSocrates == Atom1("IsPhilosopher", "Socrates")
HauptstadtParis == Atom2("Hauptstadt", "Frankreich", "Paris")
HauptstadtBerlin == Atom2("Hauptstadt", "Frankreich", "Berlin")
\* a string the grammar rejects: the closing parenthesis is missing
Unbalanced == <<"IsPhilosopher", "(", "Socrates", ".">>

\* ShellManager.analyze_system_facts on a Linux host with Python 3.11.4
SystemFacts ==
    <<Atom1("LäuftAuf", "Linux"), Atom1("VerwendetShell", "bash"),
      Atom1("PythonVersion", "3_11_4")>>

\* "all x (all y (all z ((P(x, y) & P(x, z)) -> (y = z))))."
FunctionalConstraint(P) ==
    <<"all", "x", "(", "all", "y", "(", "all", "z", "(",
      "(", P, "(", "x", ",", "y", ")", "&", P, "(", "x", ",", "z", ")", ")",
      "->", "(", "y", "=", "z", ")", ")", ")", ")", ".">>

\* KAssistant._add_functional_constraints: functional_constraints
functional_constraints ==
    <<FunctionalConstraint("Einwohner"), FunctionalConstraint("Hauptstadt"),
      FunctionalConstraint("LiegtIn"), FunctionalConstraint("Fläche"),
      FunctionalConstraint("Bevölkerung"), FunctionalConstraint("Geburtsjahr"),
      FunctionalConstraint("Temperatur")>>

(***************************************************************************)
(* Bounds and inputs                                                       *)
(***************************************************************************)
MaxUsage == 2       \* cap of a prover's usage count
MaxHits == 1        \* proof-cache hits counted per cache generation
MaxRestarts == 1    \* process restarts

AddInputs ==
    {IsPhilosopherSocrates, <<"~">> \o IsPhilosopherSocrates, HauptstadtParis,
     HauptstadtBerlin, Negate(HauptstadtParis), Unbalanced}
RetractInputs == {IsPhilosopherSocrates, SystemFacts[2]}
Goals == {IsPhilosopherSocrates, HauptstadtParis}
Extractions == {<<>>, <<HauptstadtParis, HauptstadtBerlin>>}
\* what the environment does during one call: whether solver.check() raises, and
\* what the oracle's HTTP endpoint yields
Envs == [z3raises : BOOLEAN, oracle : {"error"}]

\* the facts and goals handed to the kernel when it is driven directly
CoreFacts == {IsPhilosopherSocrates, Negate(IsPhilosopherSocrates), HauptstadtParis}

\* the goals handed to the oracle adapter and what its HTTP call may yield
HauptstadtVonFrankreich == Atom1("HauptstadtVon", "Frankreich")
OracleGoals ==
    {HauptstadtVonFrankreich, Negate(HauptstadtVonFrankreich), Atom1("HauptstadtVon", "Berlin"),
     IsPhilosopherSocrates, HauptstadtParis,
     <<"IsPhilosopher", "(", "Socrates", ")", "&", "Hauptstadt", "(", "Frankreich", ",", "Paris", ")", ".">>}
OracleAnswers == {"answer", "none", "error"}

\* an environment in which nothing fails but the oracle
Quiet == [z3raises |-> FALSE, oracle |-> "error"]
Portfolios == {<<PatternName>>, <<FunctionalName, PatternName, Z3Name>>}
NewOraclePredicates == {"IsPhilosopher"}

(***************************************************************************)
(* State                                                                   *)
(***************************************************************************)
VARIABLES
    phase,                \* position in KAssistant.__init__ / "run" afterwards
    K,                    \* HAKGAL_Core_FOL.K
    cache, hits, misses,  \* HAKGAL_Core_FOL.proof_cache (BaseCache fields)
    provers,              \* HAKGAL_Core_FOL.provers, by name
    oracle_predicates,    \* ComplexityAnalyzer.oracle_predicates
    stats,                \* ProverPortfolioManager.prover_performance / prover_usage_count
    potential_new_facts,  \* KAssistant.potential_new_facts
    wcache,               \* WolframProver.cache
    z3, client,           \* environment of the process: z3 import, Wolfram client
    disk,                 \* the file at kb_filepath
    restarts,             \* number of process restarts so far
    duration,             \* seconds the prover invocation in flight, or the last one, took
    last                  \* the last operation and what it returned

vars == <<phase, K, cache, hits, misses, provers, oracle_predicates, stats,
          potential_new_facts, wcache, z3, client, disk, restarts, duration, last>>

NoFile == [kind |-> "none"]
EmptyStats == [perf |-> <<>>, usage |-> <<>>]
NoReason == Reason("", <<>>)
Last(op, arg, outcome, success, reason, hit, invoked) ==
    [op |-> op, arg |-> arg, outcome |-> outcome, success |-> success,
     reason |-> reason, hit |-> hit, invoked |-> invoked]

\* tuple(sorted(full_kb)): the sorted tuple of a list is determined by, and
\* determines, how often each string occurs in it
Sorted(full_kb) ==
    [f \in {full_kb[i] : i \in 1..Len(full_kb)} |->
        Cardinality({i \in 1..Len(full_kb) : full_kb[i] = f})]

DefaultProvers(c) ==
    <<FunctionalName, PatternName, Z3Name>> \o (IF c THEN <<WolframName>> ELSE <<>>)

\* the process state when KAssistant.__init__ reaches load_kb
Fresh(z, c) ==
    /\ phase = "load_kb"
    /\ K = <<>>
    /\ cache = <<>> /\ hits = 0 /\ misses = 0
    /\ provers = DefaultProvers(c)
    /\ oracle_predicates = InitialOraclePredicates
    /\ stats = EmptyStats
    /\ potential_new_facts = <<>>
    /\ wcache = <<>>
    /\ z3 = z /\ client = c

\* a first start (no file at kb_filepath) without a Wolfram app id
Init ==
    /\ \E z \in {"ok", "absent"} : Fresh(z, FALSE)
    /\ disk = NoFile
    /\ restarts = 0
    /\ duration = 0
    /\ last = Last("init", <<>>, "", "unknown", NoReason, FALSE, <<>>)

(***************************************************************************)
(* HAKGAL_Core_FOL                                                         *)
(***************************************************************************)
\* prover.prove(full_kb, query_str) for the prover of that name
Prove(name, full_kb, query_str, env) ==
    CASE name = PatternName -> PatternProve(full_kb, query_str) @@ [put |-> {}]
      [] name = FunctionalName -> FunctionalProve(full_kb, query_str) @@ [put |-> {}]
      [] name = Z3Name -> Z3Prove(full_kb, query_str, z3, env.z3raises) @@ [put |-> {}]
      [] name = WolframName -> WolframProve(query_str, client, wcache, env.oracle)

NoAnswer == Reason("Kein Prover konnte eine definitive Antwort finden.", <<>>)

\* the loop of verify_logical over ordered_provers from position i on; st are the
\* portfolio statistics so far, invoked the provers called so far
RECURSIVE ProverLoop(_, _, _, _, _, _, _), ProverAnswered(_, _, _, _, _, _, _, _)
ProverLoop(ordered_provers, i, full_kb, query_str, env, st, invoked) ==
    IF i > Len(ordered_provers)
    THEN [success |-> "unknown", reason |-> NoAnswer, stats |-> st, put |-> {},
          invoked |-> invoked]
    ELSE ProverAnswered(ordered_provers, i, full_kb, query_str, env, st, invoked,
                        Prove(ordered_provers[i], full_kb, query_str, env))

\* the bug of letting a prover's exception end the loop unrecorded
ProverAnsweredRaiseStops(ordered_provers, i, full_kb, query_str, env, st, invoked, r) ==
    LET prover == ordered_provers[i]
        st2 == UpdatePerformance(st, prover, r.success # "unknown")
    IN  IF r.raised
        THEN [success |-> "unknown", reason |-> NoAnswer, stats |-> st, put |-> {},
              invoked |-> Append(invoked, prover)]
        ELSE IF r.success # "unknown"
        THEN [success |-> r.success, reason |-> r.reason, stats |-> st2,
              put |-> r.put, invoked |-> Append(invoked, prover)]
        ELSE LET rest == ProverLoop(ordered_provers, i + 1, full_kb, query_str, env,
                                    st2, Append(invoked, prover))
             IN  [rest EXCEPT !.put = r.put \cup rest.put]

\* the body of the loop once ordered_provers[i] has answered r (or raised)
ProverAnswered(ordered_provers, i, full_kb, query_str, env, st, invoked, r) ==
    LET prover == ordered_provers[i]
        st2 == UpdatePerformance(st, prover, ~r.raised /\ r.success # "unknown")
    IN  IF ~r.raised /\ r.success # "unknown"
        THEN [success |-> r.success, reason |-> r.reason, stats |-> st2,
              put |-> r.put, invoked |-> Append(invoked, prover)]
        ELSE LET rest == ProverLoop(ordered_provers, i + 1, full_kb, query_str, env,
                                    st2, Append(invoked, prover))
             IN  [rest EXCEPT !.put = r.put \cup rest.put]

\* the bug of running the provers in the order of self.provers, as is done without a
\* portfolio manager
PipelineGivenOrder(query_str, full_kb, env) ==
    ProverLoop(provers, 1, full_kb, query_str, env, stats, <<>>)

\* the prover pipeline of verify_logical, without the cache lookup
Pipeline(query_str, full_kb, env) ==
    ProverLoop(SelectProverStrategy(Recommended(query_str, oracle_predicates, client), provers),
               1, full_kb, query_str, env, stats, <<>>)

\* BaseCache.hit_rate, as a fraction in lowest terms
HitRate(h, m) == IF h + m > 0 THEN Rate(h * 100, h + m) ELSE <<0, 1>>

\* ProofCache.put / BaseCache.put; the timestamp is not modelled
CachePut(c, key, success, reason) ==
    [k \in DOMAIN c \cup {key} |->
        IF k = key THEN [success |-> success, reason |-> reason] ELSE c[k]]

\* the bug of storing whatever the loop ended with
CacheableAlways(success) == TRUE

\* whether verify_logical stores a verdict in the proof cache
Cacheable(success) == success = "proved"

\* verify_logical after a cache miss, given the outcome r of the prover loop
VerifyMiss(cache_key, r) ==
    [success |-> r.success, reason |-> r.reason,
     hit |-> FALSE, invoked |-> r.invoked,
     cache |-> IF Cacheable(r.success)
               THEN CachePut(cache, cache_key, r.success, r.reason)
               ELSE cache,
     hits |-> hits, misses |-> misses + 1,
     stats |-> r.stats,
     wcache |-> CacheResult(wcache, r.put)]

\* the bug of answering from the cache without counting the hit
VerifyHitUncounted(cached_result) ==
    [success |-> cached_result.success, reason |-> cached_result.reason,
     hit |-> TRUE, invoked |-> <<>>,
     cache |-> cache, hits |-> hits, misses |-> misses,
     stats |-> stats, wcache |-> wcache]

\* verify_logical after a cache hit
VerifyHit(cached_result) ==
    [success |-> cached_result.success, reason |-> cached_result.reason,
     hit |-> TRUE, invoked |-> <<>>,
     cache |-> cache, hits |-> hits + 1, misses |-> misses,
     stats |-> stats, wcache |-> wcache]

\* verify_logical from the cache lookup on
VerifyKeyed(cache_key, query_str, full_kb, env) ==
    IF cache_key \in DOMAIN cache
    THEN VerifyHit(cache[cache_key])
    ELSE VerifyMiss(cache_key, Pipeline(query_str, full_kb, env))

\* HAKGAL_Core_FOL.verify_logical: what it returns and the fields it leaves behind
VerifyLogical(query_str, full_kb, env) ==
    VerifyKeyed(<<Sorted(full_kb), query_str>>, query_str, full_kb, env)

\* the bound of the model: a call may start only while no counter is at its cap
WithinBounds ==
    /\ hits < MaxHits
    /\ \A n \in DOMAIN stats.usage : stats.usage[n] < MaxUsage

\* the fields verify_logical writes
Commit(v) ==
    /\ cache' = v.cache /\ hits' = v.hits /\ misses' = v.misses
    /\ stats' = v.stats /\ wcache' = v.wcache

\* HAKGAL_Core_FOL.check_consistency, given the result v of its verify_logical call
CheckConsistency(new_fact, v) ==
    IF v.success = "proved"
    THEN [ok |-> FALSE,
          reason |-> Reason("Widerspruch! Neuer Fakt '{new_fact}' widerspricht KB ({reason})",
                            <<new_fact>> \o v.reason.args)]
    ELSE LET f == FunctionalProve(K, new_fact)
         IN  IF InSeq(FunctionalName, provers) /\ f.success = "refuted"
             THEN [ok |-> FALSE,
                   reason |-> Reason("Funktionaler Widerspruch! " \o f.reason.text, f.reason.args)]
             ELSE [ok |-> TRUE, reason |-> NoReason]

\* the bug of appending without looking whether the fact is already there
AddFactUnchecked(formula_str, kb, v) ==
    [added |-> TRUE, K |-> Append(kb, formula_str), cache |-> <<>>, hits |-> 0, misses |-> 0]

\* HAKGAL_Core_FOL.add_fact: the fields K and proof_cache after the call
AddFact(formula_str, kb, v) ==
    IF ~InSeq(formula_str, kb)
    THEN [added |-> TRUE, K |-> Append(kb, formula_str),
          cache |-> <<>>, hits |-> 0, misses |-> 0]
    ELSE [added |-> FALSE, K |-> kb, cache |-> v.cache, hits |-> v.hits, misses |-> v.misses]

\* the bug of dropping the last element instead of the fact
RemoveFirstPopsLast(kb, f) == SubSeq(kb, 1, Len(kb) - 1)

\* list.remove: the first occurrence
RemoveFirst(kb, f) ==
    LET i == CHOOSE k \in 1..Len(kb) : kb[k] = f /\ \A m \in 1..(k - 1) : kb[m] # f
    IN  SubSeq(kb, 1, i - 1) \o SubSeq(kb, i + 1, Len(kb))

(***************************************************************************)
(* KAssistant                                                              *)
(***************************************************************************)
\* KAssistant._normalize_and_correct_syntax on tokens: ":-" becomes "->", "~" becomes
\* "-", leading "--" pairs are dropped, a bare "Name." becomes "Name().".  (The
\* hyphen and synonym rewrites act inside identifiers; no identifier of the
\* model contains a hyphen or a synonym.)
RECURSIVE StripDoubleNegation(_)
StripDoubleNegation(s) ==
    IF Len(s) >= 2 /\ s[1] = "-" /\ s[2] = "-" THEN StripDoubleNegation(SubSeq(s, 3, Len(s)))
    ELSE s

NormalizeAndCorrectSyntax(formula) ==
    LET replaced == [i \in 1..Len(formula) |->
                        CASE formula[i] = ":-" -> "->"
                          [] formula[i] = "~" -> "-"
                          [] OTHER -> formula[i]]
        corrected == StripDoubleNegation(replaced)
    IN  IF Len(corrected) = 2 /\ corrected[1] \in PREDICATE /\ corrected[2] = "."
        THEN <<corrected[1], "(", ")", ".">>
        ELSE corrected

\* for fact in facts: if fact not in K: K.append(fact)  (the startup insertions)
RECURSIVE AppendMissing(_, _)
AppendMissing(kb, facts) ==
    IF facts = <<>> THEN kb
    ELSE AppendMissing(IF InSeq(Head(facts), kb) THEN kb ELSE Append(kb, Head(facts)),
                       Tail(facts))

\* the bug of loading the facts without the portfolio statistics
LoadKbFactsOnly ==
    /\ phase = "load_kb"
    /\ phase' = "system_facts"
    /\ IF disk.kind = "data"
       THEN /\ K' = disk.facts
            /\ cache' = disk.proof_cache
            /\ stats' = stats
       ELSE UNCHANGED <<K, cache, stats>>
    /\ last' = Last("load_kb", <<>>, IF disk.kind = "data" THEN "loaded" ELSE "empty",
                    "unknown", NoReason, FALSE, <<>>)
    /\ UNCHANGED <<hits, misses, provers, oracle_predicates, potential_new_facts, wcache,
                   z3, client, duration, disk, restarts>>

\* KAssistant.load_kb
LoadKb ==
    /\ phase = "load_kb"
    /\ phase' = "system_facts"
    /\ IF disk.kind = "data"
       THEN /\ K' = disk.facts
            /\ cache' = disk.proof_cache
            /\ stats' = disk.portfolio_stats
       ELSE UNCHANGED <<K, cache, stats>>
    /\ last' = Last("load_kb", <<>>, IF disk.kind = "data" THEN "loaded" ELSE "empty",
                    "unknown", NoReason, FALSE, <<>>)
    /\ UNCHANGED <<hits, misses, provers, oracle_predicates, potential_new_facts, wcache,
                   z3, client, duration, disk, restarts>>

\* KAssistant._add_system_facts
AddSystemFacts ==
    /\ phase = "system_facts"
    /\ phase' = "functional_constraints"
    /\ K' = AppendMissing(K, SystemFacts)
    /\ last' = Last("_add_system_facts", <<>>, "", "unknown", NoReason, FALSE, <<>>)
    /\ UNCHANGED <<cache, hits, misses, provers, oracle_predicates, stats,
                   potential_new_facts, wcache, z3, client, duration, disk, restarts>>

\* KAssistant._add_functional_constraints
AddFunctionalConstraints ==
    /\ phase = "functional_constraints"
    /\ phase' = "run"
    /\ K' = AppendMissing(K, functional_constraints)
    /\ last' = Last("_add_functional_constraints", <<>>, "", "unknown", NoReason, FALSE, <<>>)
    /\ UNCHANGED <<cache, hits, misses, provers, oracle_predicates, stats,
                   potential_new_facts, wcache, z3, client, duration, disk, restarts>>

\* the bug of a missing return after the inconsistency warning: the fact is added
AddCheckedNoReturn(normalized_formula, v) ==
    LET c == CheckConsistency(normalized_formula, v)
        a == AddFact(normalized_formula, K, v)
    IN  /\ K' = a.K
        /\ cache' = a.cache /\ hits' = a.hits /\ misses' = a.misses
        /\ stats' = v.stats /\ wcache' = v.wcache
        /\ last' = Last("add_raw", normalized_formula,
                        IF ~c.ok THEN "inconsistent"
                        ELSE IF a.added THEN "added" ELSE "present",
                        v.success, c.reason, v.hit, v.invoked)

\* add_raw from the consistency check on; v is the result of check_consistency's
\* verify_logical call
AddChecked(normalized_formula, v) ==
    LET c == CheckConsistency(normalized_formula, v)
        a == AddFact(normalized_formula, K, v)
    IN  IF ~c.ok
        THEN /\ Commit(v)
             /\ K' = K
             /\ last' = Last("add_raw", normalized_formula, "inconsistent",
                             v.success, c.reason, v.hit, v.invoked)
        ELSE /\ K' = a.K
             /\ cache' = a.cache /\ hits' = a.hits /\ misses' = a.misses
             /\ stats' = v.stats /\ wcache' = v.wcache
             /\ last' = Last("add_raw", normalized_formula,
                             IF a.added THEN "added" ELSE "present",
                             v.success, NoReason, v.hit, v.invoked)

\* add_raw from the syntax check on
AddNormalized(normalized_formula, env) ==
    IF ~Parse(normalized_formula)
    THEN /\ last' = Last("add_raw", normalized_formula, "invalid", "unknown",
                         Reason("Ungültige Syntax. {msg}", <<>>), FALSE, <<>>)
         /\ UNCHANGED <<K, cache, hits, misses, stats, wcache>>
    ELSE AddChecked(normalized_formula, VerifyLogical(Negate(normalized_formula), K, env))

\* KAssistant.add_raw
AddRaw(formula, env) ==
    /\ phase = "run"
    /\ WithinBounds
    /\ AddNormalized(NormalizeAndCorrectSyntax(formula), env)
    /\ UNCHANGED <<phase, provers, oracle_predicates, potential_new_facts, z3, client, duration,
                   disk, restarts>>

\* KAssistant.retract / HAKGAL_Core_FOL.retract_fact
Retract(formula_to_retract) ==
    /\ phase = "run"
    /\ LET normalized_target == NormalizeAndCorrectSyntax(formula_to_retract)
       IN  IF InSeq(normalized_target, K)
           THEN /\ K' = RemoveFirst(K, normalized_target)
                /\ cache' = <<>> /\ hits' = 0 /\ misses' = 0
                /\ last' = Last("retract", normalized_target, "removed", "unknown",
                                NoReason, FALSE, <<>>)
           ELSE /\ UNCHANGED <<K, cache, hits, misses>>
                /\ last' = Last("retract", normalized_target, "absent", "unknown",
                                NoReason, FALSE, <<>>)
    /\ UNCHANGED <<phase, provers, oracle_predicates, stats, potential_new_facts, wcache,
                   z3, client, duration, disk, restarts>>

\* the facts _ask_or_explain keeps of the extracted ones: temp_assumptions and
\* potential_new_facts
RECURSIVE Potential(_, _, _)
Potential(extracted, kb, acc) ==
    IF extracted = <<>> THEN acc
    ELSE LET corrected_fact == NormalizeAndCorrectSyntax(Head(extracted))
         IN  Potential(Tail(extracted), kb,
                       IF Parse(corrected_fact) /\ ~InSeq(corrected_fact, kb)
                          /\ ~InSeq(corrected_fact, acc)
                       THEN Append(acc, corrected_fact) ELSE acc)

TempAssumptions(extracted) ==
    SelectSeq([i \in 1..Len(extracted) |-> NormalizeAndCorrectSyntax(extracted[i])], Parse)

\* _ask_or_explain once verify_logical has returned v
Answered(logical_form, extracted, v) ==
    /\ Commit(v)
    /\ last' = Last("ask", logical_form, IF extracted = <<>> THEN "kb" ELSE "kb+temp",
                    v.success, v.reason, v.hit, v.invoked)

\* _ask_or_explain from the syntax check of the logical form on
AskLogicalForm(logical_form, extracted, env) ==
    IF ~Parse(logical_form)
    THEN /\ last' = Last("ask", logical_form, "invalid", "unknown",
                         Reason("Ungültige Syntax. {msg}", <<>>), FALSE, <<>>)
         /\ UNCHANGED <<cache, hits, misses, stats, wcache>>
    ELSE Answered(logical_form, extracted,
                  VerifyLogical(logical_form, K \o TempAssumptions(extracted), env))

\* the bug of extending core.K in place by the temporary assumptions
AskOrExplainExtend(q, extracted, env) ==
    /\ phase = "run"
    /\ WithinBounds
    /\ potential_new_facts' = Potential(extracted, K, <<>>)
    /\ AskLogicalForm(NormalizeAndCorrectSyntax(q), extracted, env)
    /\ K' = K \o TempAssumptions(extracted)
    /\ UNCHANGED <<phase, provers, oracle_predicates, z3, client, duration, disk, restarts>>

\* KAssistant._ask_or_explain (ask, explain, ask_raw): q is the logical form of the
\* question, extracted the facts the retrieval pipeline extracted (none for ask_raw)
AskOrExplain(q, extracted, env) ==
    /\ phase = "run"
    /\ WithinBounds
    /\ potential_new_facts' = Potential(extracted, K, <<>>)
    /\ AskLogicalForm(NormalizeAndCorrectSyntax(q), extracted, env)
    /\ UNCHANGED <<phase, K, provers, oracle_predicates, z3, client, duration, disk, restarts>>

\* the loop of learn_facts: the knowledge base after it, and whether add_fact
\* cleared the proof cache
RECURSIVE LearnLoop(_, _, _)
LearnLoop(facts, kb, cleared) ==
    IF facts = <<>> THEN [K |-> kb, cleared |-> cleared]
    ELSE LET fact == Head(facts)
         IN  IF InSeq(fact, kb) \/ InSeq(Negate(fact), kb)
             THEN LearnLoop(Tail(facts), kb, cleared)
             ELSE LearnLoop(Tail(facts), Append(kb, fact), TRUE)

\* KAssistant.learn_facts
LearnFacts ==
    /\ phase = "run"
    /\ LET r == LearnLoop(potential_new_facts, K, FALSE)
       IN  /\ K' = r.K
           /\ IF r.cleared
              THEN cache' = <<>> /\ hits' = 0 /\ misses' = 0
              ELSE UNCHANGED <<cache, hits, misses>>
           /\ last' = Last("learn_facts", <<>>, IF r.cleared THEN "added" ELSE "nothing",
                           "unknown", NoReason, FALSE, <<>>)
    /\ potential_new_facts' = <<>>
    /\ UNCHANGED <<phase, provers, oracle_predicates, stats, wcache, z3, client, duration, disk,
                   restarts>>

\* KAssistant.clear_cache
ClearCache ==
    /\ phase = "run"
    /\ cache' = <<>> /\ hits' = 0 /\ misses' = 0
    /\ wcache' = IF InSeq(WolframName, provers) THEN <<>> ELSE wcache
    /\ last' = Last("clear_cache", <<>>, "", "unknown", NoReason, FALSE, <<>>)
    /\ UNCHANGED <<phase, K, provers, oracle_predicates, stats, potential_new_facts,
                   z3, client, duration, disk, restarts>>

\* KAssistant.save_kb / KnowledgeBasePersistence.save; io: whether the write succeeds,
\* fails before the file is opened, or fails after open(filepath, 'wb') truncated it
SaveKb(io) ==
    /\ phase = "run"
    /\ disk' = CASE io = "ok" -> [kind |-> "data", facts |-> K, proof_cache |-> cache,
                                  portfolio_stats |-> stats]
                 [] io = "open fails" -> disk
                 [] io = "dump fails" -> [kind |-> "corrupt"]
    /\ last' = Last("save_kb", <<>>, io, "unknown", NoReason, FALSE, <<>>)
    /\ UNCHANGED <<phase, K, cache, hits, misses, provers, oracle_predicates, stats,
                   potential_new_facts, wcache, z3, client, duration, restarts>>

\* HAKGAL_Core_FOL.set_provers
SetProvers(p) ==
    /\ phase = "run"
    /\ provers' = p
    /\ last' = Last("set_provers", <<>>, "", "unknown", NoReason, FALSE, <<>>)
    /\ UNCHANGED <<phase, K, cache, hits, misses, oracle_predicates, stats,
                   potential_new_facts, wcache, z3, client, duration, disk, restarts>>

\* KAssistant.add_oracle_predicate
AddOraclePredicate(predicate) ==
    /\ phase = "run"
    /\ oracle_predicates' = oracle_predicates \cup {predicate}
    /\ last' = Last("add_oracle_predicate", <<>>, "", "unknown", NoReason, FALSE, <<>>)
    /\ UNCHANGED <<phase, K, cache, hits, misses, provers, stats, potential_new_facts,
                   wcache, z3, client, duration, disk, restarts>>

\* the process ends and a new one, on the same host, runs KAssistant.__init__ up to
\* load_kb
Restart ==
    /\ restarts < MaxRestarts
    /\ restarts' = restarts + 1
    /\ phase' = "load_kb"
    /\ K' = <<>>
    /\ cache' = <<>> /\ hits' = 0 /\ misses' = 0
    /\ provers' = DefaultProvers(client)
    /\ oracle_predicates' = InitialOraclePredicates
    /\ stats' = EmptyStats
    /\ potential_new_facts' = <<>>
    /\ wcache' = <<>>
    /\ last' = Last("init", <<>>, "", "unknown", NoReason, FALSE, <<>>)
    /\ UNCHANGED <<z3, client, duration, disk>>

\* a session of the assistant on a host without Wolfram app id
Next ==
    \/ LoadKb
    \/ AddSystemFacts
    \/ AddFunctionalConstraints
    \/ \E f \in AddInputs, env \in Envs : AddRaw(f, env)
    \/ \E f \in RetractInputs : Retract(f)
    \/ \E q \in Goals, ex \in Extractions, env \in Envs : AskOrExplain(q, ex, env)
    \/ LearnFacts
    \/ ClearCache

Spec == Init /\ [][Next]_vars

\* a first start on a host with the solver and without a Wolfram app id
InitLifecycle ==
    /\ Fresh("ok", FALSE)
    /\ disk = NoFile
    /\ restarts = 0
    /\ duration = 0
    /\ last = Last("init", <<>>, "", "unknown", NoReason, FALSE, <<>>)

\* sessions that reconfigure the portfolio, save the knowledge base and restart
NextLifecycle ==
    \/ LoadKb
    \/ AddSystemFacts
    \/ AddFunctionalConstraints
    \/ \E q \in Goals, ex \in Extractions : AskOrExplain(q, ex, Quiet)
    \/ \E p \in Portfolios : SetProvers(p)
    \/ \E predicate \in NewOraclePredicates : AddOraclePredicate(predicate)
    \/ \E io \in {"ok", "open fails", "dump fails"} : SaveKb(io)
    \/ Restart

SpecLifecycle == InitLifecycle /\ [][NextLifecycle]_vars

(***************************************************************************)
(* HAKGAL_Core_FOL driven through its own methods, wired as                *)
(* KAssistant._initialize_provers wires it, with K empty at first          *)
(***************************************************************************)
InitCore ==
    /\ phase = "core"
    /\ K = <<>>
    /\ cache = <<>> /\ hits = 0 /\ misses = 0
    /\ provers = DefaultProvers(FALSE)
    /\ oracle_predicates = InitialOraclePredicates
    /\ stats = EmptyStats
    /\ potential_new_facts = <<>>
    /\ wcache = <<>>
    /\ z3 \in {"ok", "absent"} /\ client = FALSE
    /\ disk = NoFile
    /\ restarts = 0
    /\ duration = 0
    /\ last = Last("init", <<>>, "", "unknown", NoReason, FALSE, <<>>)

\* the bug of a clear that empties the cache and keeps the counters
CoreAddFactKeepsCounters(formula_str) ==
    /\ phase = "core"
    /\ IF ~InSeq(formula_str, K)
       THEN /\ K' = Append(K, formula_str)
            /\ cache' = <<>>
            /\ UNCHANGED <<hits, misses>>
            /\ last' = Last("add_fact", formula_str, "true", "unknown", NoReason, FALSE, <<>>)
       ELSE /\ UNCHANGED <<K, cache, hits, misses>>
            /\ last' = Last("add_fact", formula_str, "false", "unknown", NoReason, FALSE, <<>>)
    /\ UNCHANGED <<phase, provers, oracle_predicates, stats, potential_new_facts, wcache,
                   z3, client, duration, disk, restarts>>

\* HAKGAL_Core_FOL.add_fact, with the value it returns
CoreAddFact(formula_str) ==
    /\ phase = "core"
    /\ IF ~InSeq(formula_str, K)
       THEN /\ K' = Append(K, formula_str)
            /\ cache' = <<>> /\ hits' = 0 /\ misses' = 0
            /\ last' = Last("add_fact", formula_str, "true", "unknown", NoReason, FALSE, <<>>)
       ELSE /\ UNCHANGED <<K, cache, hits, misses>>
            /\ last' = Last("add_fact", formula_str, "false", "unknown", NoReason, FALSE, <<>>)
    /\ UNCHANGED <<phase, provers, oracle_predicates, stats, potential_new_facts, wcache,
                   z3, client, duration, disk, restarts>>

\* the bug of clearing the proof cache whether or not the fact was found
CoreRetractFactAlwaysClears(fact_to_remove) ==
    /\ phase = "core"
    /\ cache' = <<>> /\ hits' = 0 /\ misses' = 0
    /\ IF InSeq(fact_to_remove, K)
       THEN /\ K' = RemoveFirst(K, fact_to_remove)
            /\ last' = Last("retract_fact", fact_to_remove, "true", "unknown", NoReason,
                            FALSE, <<>>)
       ELSE /\ UNCHANGED K
            /\ last' = Last("retract_fact", fact_to_remove, "false", "unknown", NoReason,
                            FALSE, <<>>)
    /\ UNCHANGED <<phase, provers, oracle_predicates, stats, potential_new_facts, wcache,
                   z3, client, duration, disk, restarts>>

\* HAKGAL_Core_FOL.retract_fact, with the value it returns
CoreRetractFact(fact_to_remove) ==
    /\ phase = "core"
    /\ IF InSeq(fact_to_remove, K)
       THEN /\ K' = RemoveFirst(K, fact_to_remove)
            /\ cache' = <<>> /\ hits' = 0 /\ misses' = 0
            /\ last' = Last("retract_fact", fact_to_remove, "true", "unknown", NoReason,
                            FALSE, <<>>)
       ELSE /\ UNCHANGED <<K, cache, hits, misses>>
            /\ last' = Last("retract_fact", fact_to_remove, "false", "unknown", NoReason,
                            FALSE, <<>>)
    /\ UNCHANGED <<phase, provers, oracle_predicates, stats, potential_new_facts, wcache,
                   z3, client, duration, disk, restarts>>

\* verify_logical(query_str, K) once it has returned v
CoreVerified(query_str, v) ==
    /\ Commit(v)
    /\ last' = Last("verify_logical", query_str, "kb", v.success, v.reason, v.hit, v.invoked)

\* HAKGAL_Core_FOL.verify_logical on the knowledge base K
CoreVerifyLogical(query_str, env) ==
    /\ phase = "core"
    /\ WithinBounds
    /\ CoreVerified(query_str, VerifyLogical(query_str, K, env))
    /\ UNCHANGED <<phase, K, provers, oracle_predicates, potential_new_facts, z3, client, duration,
                   disk, restarts>>

\* the kernel driven directly
NextCore ==
    \/ \E f \in CoreFacts : CoreAddFact(f)
    \/ \E f \in CoreFacts : CoreRetractFact(f)
    \/ \E q \in Goals, env \in Envs : CoreVerifyLogical(q, env)

SpecCore == InitCore /\ [][NextCore]_vars

(***************************************************************************)
(* One iteration of the loop of verify_logical seen in time: the call of   *)
(* Z3Adapter.prove starts, the solver runs, and the call returns.  Neither *)
(* verify_logical nor the adapter sets a limit on the solver               *)
(***************************************************************************)
MaxSeconds == 11

\* start_time = time.time(); prover.prove(full_kb, query_str) is entered
ProveStart(query_str) ==
    /\ phase = "core"
    /\ phase' = "prove"
    /\ duration' = 0
    /\ last' = Last("prove", query_str, "running", "unknown", NoReason, FALSE, <<Z3Name>>)
    /\ UNCHANGED <<K, cache, hits, misses, provers, oracle_predicates, stats,
                   potential_new_facts, wcache, z3, client, disk, restarts>>

\* a second passes in solver.check()
ProveTick ==
    /\ phase = "prove"
    /\ z3 = "ok"
    /\ duration < MaxSeconds
    /\ duration' = duration + 1
    /\ UNCHANGED <<phase, K, cache, hits, misses, provers, oracle_predicates, stats,
                   potential_new_facts, wcache, z3, client, disk, restarts, last>>

\* the adapter has answered r (or raised): duration = time.time() - start_time
ProveReturned(r) ==
    /\ phase' = "core"
    /\ last' = Last("prove", last.arg, IF r.raised THEN "raised" ELSE "returned",
                    r.success, r.reason, FALSE, <<Z3Name>>)

\* prover.prove(full_kb, query_str) returns or raises
ProveReturn(env) ==
    /\ phase = "prove"
    /\ ProveReturned(Z3Prove(K, last.arg, z3, env.z3raises))
    /\ UNCHANGED <<K, cache, hits, misses, provers, oracle_predicates, stats,
                   potential_new_facts, wcache, z3, client, disk, restarts, duration>>

NextBudget ==
    \/ \E f \in CoreFacts : CoreAddFact(f)
    \/ \E q \in Goals : ProveStart(q)
    \/ ProveTick
    \/ \E env \in Envs : ProveReturn(env)

SpecBudget == InitCore /\ [][NextBudget]_vars

(***************************************************************************)
(* PatternProver.prove and FunctionalConstraintProver.prove called on      *)
(* assumption lists and goals of their own                                 *)
(***************************************************************************)
MaxAssumptions == 2
HauptstadtBerlinRule ==
    <<"Hauptstadt", "(", "Frankreich", ",", "Berlin", ")", "->",
      "IsPhilosopher", "(", "Socrates", ")", ".">>
ProverFacts ==
    {HauptstadtParis, HauptstadtBerlin, Negate(HauptstadtParis), IsPhilosopherSocrates,
     Negate(IsPhilosopherSocrates), HauptstadtBerlinRule, Atom1("Hauptstadt", "Berlin")}
ProverGoals ==
    {HauptstadtParis, Negate(HauptstadtParis), IsPhilosopherSocrates,
     Negate(IsPhilosopherSocrates), Atom1("Hauptstadt", "Paris"),
     <<"Hauptstadt", "(", "Frankreich", ",", "Paris", ")", "&",
       "IsPhilosopher", "(", "Socrates", ")", ".">>,
     <<"all", "x", "(", "Hauptstadt", "(", "x", ",", "Paris", ")", ")", ".">>}
AssumptionLists == UNION {[1..n -> ProverFacts] : n \in 0..MaxAssumptions}

InitProvers ==
    /\ phase = "provers"
    /\ K \in AssumptionLists
    /\ cache = <<>> /\ hits = 0 /\ misses = 0
    /\ provers = DefaultProvers(FALSE)
    /\ oracle_predicates = InitialOraclePredicates
    /\ stats = EmptyStats
    /\ potential_new_facts = <<>>
    /\ wcache = <<>>
    /\ z3 = "ok" /\ client = FALSE
    /\ disk = NoFile
    /\ restarts = 0
    /\ duration = 0
    /\ \E goal \in ProverGoals :
          last = Last("input", goal, "", "unknown", NoReason, FALSE, <<>>)

\* a prover has returned r for the assumptions K and the goal last.arg
ProverReturned(op, name, r) ==
    /\ last' = Last(op, last.arg, "", r.success, r.reason, FALSE, <<name>>)
    /\ UNCHANGED <<phase, K, cache, hits, misses, provers, oracle_predicates, stats,
                   potential_new_facts, wcache, z3, client, duration, disk, restarts>>

\* PatternProver.prove(K, goal)
PatternCall ==
    /\ phase = "provers"
    /\ last.op = "input"
    /\ ProverReturned("pattern_prove", PatternName, PatternProve(K, last.arg))

\* FunctionalConstraintProver.prove(K, goal)
FunctionalCall ==
    /\ phase = "provers"
    /\ last.op = "input"
    /\ ProverReturned("functional_prove", FunctionalName, FunctionalProve(K, last.arg))

NextProvers == PatternCall \/ FunctionalCall

SpecProvers == InitProvers /\ [][NextProvers]_vars

(***************************************************************************)
(* KAssistant._normalize_and_correct_syntax on strings, character by       *)
(* character.  "A" stands for an upper-case letter, "b" for a lower-case   *)
(* letter or digit; none of the identifiers of the synonym table can be    *)
(* spelled with them, so the table rewrites nothing                        *)
(***************************************************************************)
Chars == {"A", "b", "-", "~", ":", ".", "(", ")", " "}
MaxChars == 4
Strings == UNION {[1..n -> Chars] : n \in 0..MaxChars}

IsUpper(c) == c = "A"
IsAlnum(c) == c \in {"A", "b"}

\* the last position of the run of letters and digits that starts at i
RECURSIVE RunEnd(_, _)
RunEnd(s, i) == IF i < Len(s) /\ IsAlnum(s[i + 1]) THEN RunEnd(s, i + 1) ELSE i

\* re.sub(r'\b([A-Z][a-zA-Z0-9]*)-([a-zA-Z0-9]+)\b', r'\1\2', formula) from position i
\* on: the matches are found left to right and do not overlap, and the replacement
\* text is not scanned again
RECURSIVE HyphenSub(_, _)
HyphenSub(s, i) ==
    IF i > Len(s) THEN <<>>
    ELSE IF /\ IsUpper(s[i])
            /\ (i = 1 \/ ~IsAlnum(s[i - 1]))
            /\ RunEnd(s, i) + 2 <= Len(s)
            /\ s[RunEnd(s, i) + 1] = "-"
            /\ IsAlnum(s[RunEnd(s, i) + 2])
    THEN SubSeq(s, i, RunEnd(s, i))
            \o SubSeq(s, RunEnd(s, i) + 2, RunEnd(s, RunEnd(s, i) + 2))
            \o HyphenSub(s, RunEnd(s, RunEnd(s, i) + 2) + 1)
    ELSE <<s[i]>> \o HyphenSub(s, i + 1)

\* str.strip
RECURSIVE StripBlanks(_)
StripBlanks(s) ==
    IF s # <<>> /\ s[1] = " " THEN StripBlanks(Tail(s))
    ELSE IF s # <<>> /\ s[Len(s)] = " " THEN StripBlanks(SubSeq(s, 1, Len(s) - 1))
    ELSE s

\* str.replace(':-', '->')
RECURSIVE ReplaceLegacyArrow(_)
ReplaceLegacyArrow(s) ==
    IF s = <<>> THEN <<>>
    ELSE IF Len(s) >= 2 /\ s[1] = ":" /\ s[2] = "-"
    THEN <<"-", ">">> \o ReplaceLegacyArrow(SubSeq(s, 3, Len(s)))
    ELSE <<s[1]>> \o ReplaceLegacyArrow(Tail(s))

\* str.replace('~', '-')
ReplaceTilde(s) == [i \in 1..Len(s) |-> IF s[i] = "~" THEN "-" ELSE s[i]]

\* KAssistant._normalize_and_correct_syntax on a string
NormalizeAndCorrectSyntaxChars(formula) ==
    LET corrected ==
            StripDoubleNegation(ReplaceTilde(ReplaceLegacyArrow(StripBlanks(HyphenSub(formula, 1)))))
    IN  IF /\ Len(corrected) >= 2
           /\ IsUpper(corrected[1])
           /\ \A i \in 2..(Len(corrected) - 1) : IsAlnum(corrected[i])
           /\ corrected[Len(corrected)] = "."
        THEN SubSeq(corrected, 1, Len(corrected) - 1) \o <<"(", ")", ".">>
        ELSE corrected

InitNormalize ==
    /\ phase = "normalize"
    /\ K = <<>>
    /\ cache = <<>> /\ hits = 0 /\ misses = 0
    /\ provers = DefaultProvers(FALSE)
    /\ oracle_predicates = InitialOraclePredicates
    /\ stats = EmptyStats
    /\ potential_new_facts = <<>>
    /\ wcache = <<>>
    /\ z3 = "ok" /\ client = FALSE
    /\ disk = NoFile
    /\ restarts = 0
    /\ duration = 0
    /\ \E formula \in Strings :
          last = Last("input", formula, "", "unknown", NoReason, FALSE, <<>>)

\* a call of _normalize_and_correct_syntax; the reason is the diagnostic it prints
NormalizeCall(formula) ==
    /\ phase = "normalize"
    /\ last.op = "input"
    /\ last.arg = formula
    /\ last' = IF NormalizeAndCorrectSyntaxChars(formula) # formula
               THEN Last("normalize", formula, "changed", "unknown",
                         Reason("[Normalisierung] '{original}' -> '{corrected}'",
                                <<formula, NormalizeAndCorrectSyntaxChars(formula)>>),
                         FALSE, <<>>)
               ELSE Last("normalize", formula, "unchanged", "unknown", NoReason, FALSE, <<>>)
    /\ UNCHANGED <<phase, K, cache, hits, misses, provers, oracle_predicates, stats,
                   potential_new_facts, wcache, z3, client, duration, disk, restarts>>

NextNormalize == NormalizeCall(last.arg)

SpecNormalize == InitNormalize /\ [][NextNormalize]_vars

(***************************************************************************)
(* WolframProver driven through its own methods, with a configured client, *)
(* while time passes between the calls                                     *)
(***************************************************************************)
InitOracle ==
    /\ phase = "oracle"
    /\ K = <<>>
    /\ cache = <<>> /\ hits = 0 /\ misses = 0
    /\ provers = DefaultProvers(TRUE)
    /\ oracle_predicates = InitialOraclePredicates
    /\ stats = EmptyStats
    /\ potential_new_facts = <<>>
    /\ wcache = <<>>
    /\ z3 = "ok" /\ client = TRUE
    /\ disk = NoFile
    /\ restarts = 0
    /\ duration = 0
    /\ last = Last("init", <<>>, "", "unknown", NoReason, FALSE, <<>>)

\* WolframProver.prove once it has returned r, with _cache_result applied
OracleAnswered(goal, oracle, r) ==
    /\ wcache' = CacheResult(wcache, r.put)
    /\ last' = Last("wolfram_prove", goal, oracle, r.success, r.reason,
                    WolframFresh(SimpleTranslate(goal), wcache), <<WolframName>>)

\* WolframProver.prove(assumptions, goal); the assumptions are not read
OracleProve(goal, oracle) ==
    /\ phase = "oracle"
    /\ OracleAnswered(goal, oracle, WolframProve(goal, client, wcache, oracle))
    /\ UNCHANGED <<phase, K, cache, hits, misses, provers, oracle_predicates, stats,
                   potential_new_facts, z3, client, duration, disk, restarts>>

\* WolframProver.clear_cache
OracleClearCache ==
    /\ phase = "oracle"
    /\ wcache' = <<>>
    /\ last' = Last("wolfram_clear_cache", <<>>, "", "unknown", NoReason, FALSE, <<>>)
    /\ UNCHANGED <<phase, K, cache, hits, misses, provers, oracle_predicates, stats,
                   potential_new_facts, z3, client, duration, disk, restarts>>

\* time passes between two calls: every entry of the cache grows older; an age at or
\* beyond the timeout is kept as the timeout
OracleTick ==
    /\ phase = "oracle"
    /\ \E q \in DOMAIN wcache : wcache[q].age < cache_timeout
    /\ LET \* the time that passes in one step of the clock: half of the timeout
           elapsed == cache_timeout \div 2
       IN  wcache' = [q \in DOMAIN wcache |->
                         [wcache[q] EXCEPT !.age = IF @ + elapsed < cache_timeout
                                                   THEN @ + elapsed ELSE cache_timeout]]
    /\ last' = Last("tick", <<>>, "", "unknown", NoReason, FALSE, <<>>)
    /\ UNCHANGED <<phase, K, cache, hits, misses, provers, oracle_predicates, stats,
                   potential_new_facts, z3, client, duration, disk, restarts>>

NextOracle ==
    \/ \E g \in OracleGoals, o \in OracleAnswers : OracleProve(g, o)
    \/ OracleClearCache
    \/ OracleTick

SpecOracle == InitOracle /\ [][NextOracle]_vars

(***************************************************************************)
(* ComplexityAnalyzer.analyze and ProverPortfolioManager                   *)
(* .select_prover_strategy as functions of the formula, of whether a new   *)
(* WolframProver has a client, and of the list of available provers        *)
(***************************************************************************)
ProverNames == {PatternName, FunctionalName, Z3Name, WolframName}

\* the lists set_provers may be given: provers with distinct names, in any order
AvailableLists ==
    {s \in UNION {[1..n -> ProverNames] : n \in 0..Cardinality(ProverNames)} :
        \A i \in 1..Len(s), j \in 1..Len(s) : s[i] = s[j] => i = j}

\* the formulas analysed: the goals of the oracle and of the provers, and formulas with
\* two and with three binary connectives
AnalyzerFormulas ==
    OracleGoals \cup ProverGoals \cup
    {<<"IsPhilosopher", "(", "Socrates", ")", "&", "LiegtIn", "(", "Paris", ",", "Frankreich", ")",
       "->", "Hauptstadt", "(", "Frankreich", ",", "Paris", ")", ".">>,
     <<"IsPhilosopher", "(", "Socrates", ")", "&", "IsPhilosopher", "(", "Paris", ")", "&",
       "IsPhilosopher", "(", "Berlin", ")", "&", "IsPhilosopher", "(", "Frankreich", ")", ".">>,
     <<"IsPhilosopher", "(", "Socrates", ")", "|", "IsPhilosopher", "(", "Paris", ")", "|",
       "IsPhilosopher", "(", "Berlin", ")", "|", "IsPhilosopher", "(", "Frankreich", ")", ".">>}

InitPortfolio ==
    /\ phase = "portfolio"
    /\ K = <<>>
    /\ cache = <<>> /\ hits = 0 /\ misses = 0
    /\ provers \in AvailableLists
    /\ oracle_predicates = InitialOraclePredicates
    /\ stats = EmptyStats
    /\ potential_new_facts = <<>>
    /\ wcache = <<>>
    /\ z3 = "ok" /\ client \in BOOLEAN
    /\ disk = NoFile
    /\ restarts = 0
    /\ duration = 0
    /\ \E formula \in AnalyzerFormulas :
          last = Last("input", formula, "", "unknown", NoReason, FALSE, <<>>)

\* ComplexityAnalyzer.analyze(formula): the report's query_type (outcome),
\* requires_oracle (hit) and recommended_provers (invoked)
AnalyzeCall ==
    /\ phase = "portfolio"
    /\ last.op = "input"
    /\ LET formula == last.arg
           predicate == LeadingPredicate(formula)
           requires_oracle == RequiresOracle(predicate, formula, oracle_predicates)
           query_type == DetermineQueryType(predicate, formula, oracle_predicates)
       IN  last' = Last("analyze", formula, query_type, "unknown", NoReason, requires_oracle,
                        RecommendProvers(query_type, requires_oracle, client))
    /\ UNCHANGED <<phase, K, cache, hits, misses, provers, oracle_predicates, stats,
                   potential_new_facts, wcache, z3, client, duration, disk, restarts>>

\* ProverPortfolioManager.select_prover_strategy(formula, provers): the ordered list
SelectCall ==
    /\ phase = "portfolio"
    /\ last.op = "input"
    /\ last' = Last("select_prover_strategy", last.arg, "", "unknown", NoReason, FALSE,
                    SelectProverStrategy(Recommended(last.arg, oracle_predicates, client),
                                         provers))
    /\ UNCHANGED <<phase, K, cache, hits, misses, provers, oracle_predicates, stats,
                   potential_new_facts, wcache, z3, client, duration, disk, restarts>>

\* ComplexityAnalyzer._estimate_complexity(formula): the level (outcome)
EstimateCall ==
    /\ phase = "portfolio"
    /\ last.op = "input"
    /\ last' = Last("estimate_complexity", last.arg, EstimateComplexity(last.arg), "unknown",
                    NoReason, FALSE, <<>>)
    /\ UNCHANGED <<phase, K, cache, hits, misses, provers, oracle_predicates, stats,
                   potential_new_facts, wcache, z3, client, duration, disk, restarts>>

NextPortfolio == AnalyzeCall \/ SelectCall \/ EstimateCall

SpecPortfolio == InitPortfolio /\ [][NextPortfolio]_vars

(***************************************************************************)
(* Z3Adapter._parse_hakgal_formula_to_z3_expr as a function of the formula *)
(***************************************************************************)
\* "all u (all v (all w ((P(u, v) & P(u, w)) -> (v = w))))." and the same formula
\* with the equation not in parentheses
FunctionalConstraintOver(P, u, v, w, parenthesised) ==
    <<"all", u, "(", "all", v, "(", "all", w, "(",
      "(", P, "(", u, ",", v, ")", "&", P, "(", u, ",", w, ")", ")", "->">>
    \o (IF parenthesised THEN <<"(", v, "=", w, ")">> ELSE <<v, "=", w>>)
    \o <<")", ")", ")", ".">>

\* the formulas translated: the shipped axioms, and their variants with the variables
\* renamed or the equation not in parentheses
TranslateFormulas ==
    {FunctionalConstraintOver(P, vs[1], vs[2], vs[3], b) :
        P \in functional_predicates,
        vs \in {t \in [1..3 -> {"x", "y", "z"}] : t[1] # t[2] /\ t[1] # t[3] /\ t[2] # t[3]},
        b \in BOOLEAN}

InitTranslate ==
    /\ phase = "translate"
    /\ K = <<>>
    /\ cache = <<>> /\ hits = 0 /\ misses = 0
    /\ provers = DefaultProvers(FALSE)
    /\ oracle_predicates = InitialOraclePredicates
    /\ stats = EmptyStats
    /\ potential_new_facts = <<>>
    /\ wcache = <<>>
    /\ z3 = "ok" /\ client = FALSE
    /\ disk = NoFile
    /\ restarts = 0
    /\ duration = 0
    /\ \E formula \in TranslateFormulas :
          last = Last("input", formula, "", "unknown", NoReason, FALSE, <<>>)

\* _parse_hakgal_formula_to_z3_expr(formula): the kind of the expression built (outcome)
TranslateCall ==
    /\ phase = "translate"
    /\ last.op = "input"
    /\ last' = Last("z3_translate", last.arg, ParseHakgalFormulaToZ3Expr(last.arg, {}).kind,
                    "unknown", NoReason, FALSE, <<>>)
    /\ UNCHANGED <<phase, K, cache, hits, misses, provers, oracle_predicates, stats,
                   potential_new_facts, wcache, z3, client, duration, disk, restarts>>

NextTranslate == TranslateCall

SpecTranslate == InitTranslate /\ [][NextTranslate]_vars

C2_DefinitiveVerdictCached ==
    [][\A q \in Goals, ex \in Extractions, env \in Envs :
          LET key == <<Sorted(K \o TempAssumptions(ex)), NormalizeAndCorrectSyntax(q)>>
          IN  (AskOrExplain(q, ex, env) /\ key \notin DOMAIN cache
               /\ last'.success \in {"proved", "refuted"})
              => (key \in DOMAIN cache' /\ cache'[key].success = last'.success)]_vars

\* C3: the cache never holds an unknown verdict; a prove in which every prover
\* answers unknown returns unknown and stores nothing; the same prove repeated at
\* once misses the cache again (misses grows by one) and invokes the provers again.
C3_UnknownNeverCached ==
    [][/\ \A key \in DOMAIN cache' : cache'[key].success # "unknown"
       /\ (last'.op = "ask" /\ last'.success = "unknown" /\ ~last'.hit) => cache' = cache
       /\ \A q \in Goals, ex \in Extractions, env \in Envs :
             (/\ last.op = "ask" /\ last.success = "unknown"
              /\ last.arg = NormalizeAndCorrectSyntax(q)
              /\ last.outcome = (IF ex = <<>> THEN "kb" ELSE "kb+temp")
              /\ AskOrExplain(q, ex, env))
             => (~last'.hit /\ misses' = misses + 1 /\ last'.invoked # <<>>)]_vars

\* a second prove in a row that all three provers answered unknown, nothing cached
C3_Witness ==
    /\ last.op = "ask" /\ last.success = "unknown" /\ ~last.hit
    /\ misses = 2 /\ cache = <<>>
    /\ Len(last.invoked) = 3
    /\ \A n \in DOMAIN stats.usage : stats.usage[n] = 2
\* a knowledge base with the given sorted tuple
RECURSIVE KbOf(_)
KbOf(sorted) ==
    IF DOMAIN sorted = {} THEN <<>>
    ELSE LET f == CHOOSE x \in DOMAIN sorted : TRUE
         IN  <<f>> \o KbOf(IF sorted[f] > 1 THEN [sorted EXCEPT ![f] = @ - 1]
                           ELSE [x \in DOMAIN sorted \ {f} |-> sorted[x]])

\* C4: in every state that add_fact, retract_fact, prove, set_provers,
\* add_oracle_predicate and load_kb reach, each cache entry ((KB, g) -> v) holds the
\* verdict v that the prover pipeline, run on g under KB without the cache, returns
\* (in some environment).
C4_CacheSound ==
    phase = "run" =>
        \A key \in DOMAIN cache :
            \E env \in Envs : Pipeline(key[2], KbOf(key[1]), env).success = cache[key].success
\* C5: starting from a knowledge base without negations, no sequence of add_raw,
\* learn_facts and retract leaves K holding a formula together with its negation.
C5_NoFactWithNegation ==
    \A i \in 1..Len(K), j \in 1..Len(K) : K[j] # <<"-">> \o K[i]

\* two facts P(a.., b) and P(a.., c) with b # c of a functional predicate P
Conflicting(f, g) ==
    LET a == AtomMatch(RStripPeriod(g))
    IN  a.ok /\ a.pred \in functional_predicates /\ FunctionalConflict(f, a)

\* C6: K never holds two facts of a functional predicate that agree on all arguments
\* but the last; add_raw of P(x, z) while K holds P(x, y) is rejected, and the reason
\* mentions P, x, y and z.
C6_FunctionalUniqueness ==
    [][/\ \A i \in 1..Len(K'), j \in 1..Len(K') : ~Conflicting(K'[i], K'[j])
       /\ \A f \in AddInputs, env \in Envs :
             (AddRaw(f, env) /\ \E i \in 1..Len(K) : Conflicting(K[i], NormalizeAndCorrectSyntax(f)))
             => /\ last'.outcome = "inconsistent"
                /\ LET g == AtomMatch(RStripPeriod(NormalizeAndCorrectSyntax(f)))
                       i == CHOOSE k \in 1..Len(K) : Conflicting(K[k], NormalizeAndCorrectSyntax(f))
                       a == AtomMatch(RStripPeriod(K[i]))
                   IN  {g.pred, g.args[1][1], a.args[2][1], g.args[2][1]}
                           \subseteq {t[1] : t \in {last'.reason.args[k] :
                                                        k \in 1..Len(last'.reason.args)}}]_vars

\* C7: once startup is over (restored facts, system facts and axioms are in K), every
\* string in K parses under the grammar.
C7_EveryFactParses == phase = "run" => \A i \in 1..Len(K) : Parse(K[i])

\* C8: an add that is rejected, for a parse failure or an inconsistency, returns
\* normally and leaves K as it was, in content and order.
C8_RejectedAddKeepsK ==
    [][(last'.op = "add_raw" /\ last'.outcome \in {"invalid", "inconsistent"}) => K' = K]_vars

\* an add rejected as inconsistent with a fact the user added before
C8_Witness ==
    /\ last.op = "add_raw" /\ last.outcome = "inconsistent"
    /\ Len(K) > Len(SystemFacts) + Len(functional_constraints)

\* C9: verify_logical and check_consistency do not change K, whatever the verdict and
\* whether provers answer unknown or raise: a question leaves K as it is, and an add
\* changes K by at most the append of the checked fact.
C9_VerificationKeepsK ==
    [][/\ last'.op = "ask" => K' = K
       /\ last'.op = "add_raw" => (K' = K \/ K' = Append(K, last'.arg))]_vars

\* a question with extracted facts during which the solver raised
C9_Witness ==
    /\ last.op = "ask" /\ last.outcome = "kb+temp" /\ ~last.hit
    /\ z3 = "ok" /\ last.invoked = <<FunctionalName, Z3Name, PatternName>>
    /\ Len(K) > Len(SystemFacts) + Len(functional_constraints)

\* C10: with the default portfolio, a prove whose goal is verbatim in the knowledge
\* base returns proved and the reason names the Pattern prover.
C10_PatternDecides ==
    [][\A q \in Goals, ex \in Extractions, env \in Envs :
          (AskOrExplain(q, ex, env)
           /\ InSeq(NormalizeAndCorrectSyntax(q), K \o TempAssumptions(ex)))
          => /\ last'.success = "proved"
             /\ last'.reason.args # <<>>
             /\ last'.reason.args[1] = <<PatternName>>]_vars

\* C10 as amended: with the default portfolio and the goal verbatim in the knowledge
\* base, a prove that hits the cache returns the stored proof; one that misses
\* returns refuted with the Functional Constraint Prover's reason if the knowledge base
\* binds the goal's functional predicate and leading arguments to another value, and
\* otherwise proved, with the solver's reason if the goal's type is logic or mixed and
\* the solver is installed and answers, and with the Pattern prover's reason if not.
C10_FirstAnsweringProverDecides ==
    [][\A q \in Goals, ex \in Extractions, env \in Envs :
          LET g == NormalizeAndCorrectSyntax(q)
              kb == K \o TempAssumptions(ex)
              key == <<Sorted(kb), g>>
              fc == FunctionalProve(kb, g)
              type == DetermineQueryType(LeadingPredicate(g), g, oracle_predicates)
          IN  (/\ last'.op = "ask" /\ last'.arg = g
               /\ InSeq(g, kb) /\ provers = DefaultProvers(FALSE)
               /\ AskOrExplain(q, ex, env))
              => IF key \in DOMAIN cache
                 THEN last'.hit /\ last'.success = "proved" /\ last'.reason = cache[key].reason
                 ELSE IF fc.success = "refuted"
                 THEN last'.success = "refuted" /\ last'.reason = fc.reason
                 ELSE /\ last'.success = "proved"
                      /\ last'.reason =
                            IF type \in {"logic", "mixed"} /\ z3 = "ok" /\ ~env.z3raises
                            THEN Reason("Z3 hat das Ziel bewiesen.", <<>>)
                            ELSE Reason("{name} fand exakten Match für '{goal}'.",
                                        <<<<PatternName>>, g>>)]_vars

\* a goal that is in K proved by the solver, not by the Pattern prover
C10_Witness ==
    /\ last.op = "ask" /\ last.outcome = "kb" /\ ~last.hit
    /\ InSeq(last.arg, K)
    /\ last.success = "proved"
    /\ last.reason = Reason("Z3 hat das Ziel bewiesen.", <<>>)
\* C11: with the default portfolio, a prove whose goal's syntactic negation is
\* verbatim in the knowledge base returns refuted and the reason names the Pattern
\* prover.
C11_PatternRefutes ==
    [][\A q \in Goals, ex \in Extractions, env \in Envs :
          (/\ last'.op = "ask"
           /\ InSeq(Negate(NormalizeAndCorrectSyntax(q)), K \o TempAssumptions(ex))
           /\ AskOrExplain(q, ex, env))
          => /\ last'.success = "refuted"
             /\ last'.reason.args # <<>>
             /\ last'.reason.args[1] = <<PatternName>>]_vars

\* a knowledge base that holds some formula together with its negation
HoldsContradiction(kb) == \E i \in 1..Len(kb), j \in 1..Len(kb) : kb[j] = <<"-">> \o kb[i]

\* C11 as amended: with the default portfolio and the goal's negation verbatim in the
\* knowledge base, a prove that misses the cache returns refuted with the Functional
\* Constraint Prover's reason if the knowledge base binds the goal's functional
\* predicate and leading arguments to another value; otherwise, if the goal's type is
\* logic or mixed and the solver is installed and answers, the solver decides: proved
\* if the knowledge base holds a formula together with its negation, refuted with the
\* counter-model reason if not; otherwise the Pattern prover decides: proved if the
\* goal is verbatim in the knowledge base too, refuted if not.  A hit returns the
\* stored proof.
C11_FirstAnsweringProverRefutes ==
    [][\A q \in Goals, ex \in Extractions, env \in Envs :
          LET g == NormalizeAndCorrectSyntax(q)
              kb == K \o TempAssumptions(ex)
              key == <<Sorted(kb), g>>
              fc == FunctionalProve(kb, g)
              type == DetermineQueryType(LeadingPredicate(g), g, oracle_predicates)
          IN  (/\ last'.op = "ask" /\ last'.arg = g
               /\ InSeq(Negate(g), kb) /\ provers = DefaultProvers(FALSE)
               /\ AskOrExplain(q, ex, env))
              => IF key \in DOMAIN cache
                 THEN last'.hit /\ last'.success = "proved" /\ last'.reason = cache[key].reason
                 ELSE IF fc.success = "refuted"
                 THEN last'.success = "refuted" /\ last'.reason = fc.reason
                 ELSE IF type \in {"logic", "mixed"} /\ z3 = "ok" /\ ~env.z3raises
                 THEN IF HoldsContradiction(kb)
                      THEN /\ last'.success = "proved"
                           /\ last'.reason = Reason("Z3 hat das Ziel bewiesen.", <<>>)
                      ELSE /\ last'.success = "refuted"
                           /\ last'.reason =
                                 Reason("Z3 konnte das Ziel nicht beweisen (Gegenmodell):{model}", <<>>)
                 ELSE IF InSeq(g, kb)
                 THEN /\ last'.success = "proved"
                      /\ last'.reason = Reason("{name} fand exakten Match für '{goal}'.",
                                               <<<<PatternName>>, g>>)
                 ELSE /\ last'.success = "refuted"
                      /\ last'.reason = Reason("{name} fand Widerspruch für '{goal}'.",
                                               <<<<PatternName>>, g>>)]_vars

\* a goal whose negation is in K refuted by the solver, not by the Pattern prover
C11_Witness ==
    /\ last.op = "ask" /\ last.outcome = "kb" /\ ~last.hit
    /\ InSeq(Negate(last.arg), K)
    /\ last.success = "refuted"
    /\ last.reason = Reason("Z3 konnte das Ziel nicht beweisen (Gegenmodell):{model}", <<>>)


\* a goal over a predicate that is neither functional nor an oracle predicate
PlainGoal(q) ==
    /\ LeadingPredicate(q) \notin functional_predicates
    /\ ~RequiresOracle(LeadingPredicate(q), q, oracle_predicates)

C13_SecondProveHitsCache ==
    [][\A q \in Goals, env \in Envs :
          (/\ last.op = "verify_logical"
           /\ last.arg = q
           /\ last.success = "proved"
           /\ last'.op = "verify_logical"
           /\ CoreVerifyLogical(q, env))
          => /\ last'.success = "proved"
             /\ last'.reason = last.reason
             /\ last'.hit
             /\ hits' = hits + 1
             /\ misses' = misses
             /\ last'.invoked = <<>>
             /\ stats' = stats]_vars

C13_Witness ==
    /\ last.op = "verify_logical"
    /\ last.success = "proved"
    /\ last.hit
    /\ last.invoked = <<>>
    /\ hits = 1
    /\ misses = 1


\* the record of prover p in the statistics st: its usage_count, its success_rate as a
\* fraction, and the product of the two
UsageCount(st, p) == IF p \in DOMAIN st.usage THEN st.usage[p] ELSE 0
SuccessRate(st, p) == IF p \in DOMAIN st.perf THEN st.perf[p] ELSE <<0, 1>>
Definitives(st, p) == (SuccessRate(st, p)[1] * UsageCount(st, p)) \div SuccessRate(st, p)[2]

C15_SameQuerySameVerdict ==
    [][\A g \in OracleGoals, o \in OracleAnswers :
          (/\ last.op = "wolfram_prove"
           /\ last'.op = "wolfram_prove"
           /\ SimpleTranslate(last.arg) = SimpleTranslate(g)
           /\ SimpleTranslate(g) # <<>>
           /\ OracleProve(g, o))
          => last'.success = last.success]_vars

\* C15 (amended): once an oracle-adapter prove call has returned Proved, every prove
\* call whose goal translates to the same query string, within the TTL window and with
\* no clear_cache in between, returns Proved from the adapter's cache, whatever the
\* endpoint answers or fails with; a call that returned Unknown leaves the cache as it
\* was, and no call changes an entry that is younger than the timeout
C15_ProvedStaysProved ==
    [][\A g \in OracleGoals, o \in OracleAnswers :
          (/\ last'.op = "wolfram_prove"
           /\ last'.arg = g
           /\ OracleProve(g, o))
          => LET query == SimpleTranslate(g)
                 atomic == \A i \in 1..Len(g) : g[i] \notin {"->", "&", "|", "all"}
             IN  /\ (atomic /\ WolframFresh(query, wcache)) => last'.success = "proved"
                 /\ (/\ last.op = "wolfram_prove"
                     /\ last.success = "proved"
                     /\ SimpleTranslate(last.arg) = query
                     /\ atomic) => last'.success = "proved"
                 /\ last'.success = "proved" => WolframFresh(query, wcache')
                 /\ last'.success = "unknown" => wcache' = wcache
                 /\ \A q \in DOMAIN wcache :
                       /\ q \in DOMAIN wcache'
                       /\ WolframFresh(q, wcache) => wcache'[q] = wcache[q]]_vars

\* a goal is Proved from the cache although the endpoint fails, the query having been
\* stored by a call for another goal
C15_Witness ==
    /\ last.op = "wolfram_prove"
    /\ last.arg = Negate(HauptstadtVonFrankreich)
    /\ last.outcome = "error"
    /\ last.hit
    /\ last.success = "proved"
    /\ DOMAIN wcache = {<<"capital", "of", "france">>}


\* C16: the normalizer is idempotent: applied to its own output it returns that output
\* unchanged, for every input string
C16_NormalizerIdempotent ==
    last.op = "normalize"
        => NormalizeAndCorrectSyntaxChars(NormalizeAndCorrectSyntaxChars(last.arg))
              = NormalizeAndCorrectSyntaxChars(last.arg)


\* the position of x in the sequence s, 0 when it is absent
IndexOf(x, s) == IF InSeq(x, s) THEN CHOOSE i \in 1..Len(s) : s[i] = x ELSE 0

\* C17: when a prover raises during verify_logical (here the SMT adapter, whose solver
\* call raises), the call still returns a verdict; the invocation is counted in the
\* statistics as not definitive; the next prover of the order is invoked; the verdict
\* is the one of the first later prover that is definitive, and unknown, with the
\* reason that no prover found a definitive answer, if none is
C17_RaisingProverIsSkipped ==
    [][\A q \in Goals, ex \in Extractions, env \in Envs :
          LET g == NormalizeAndCorrectSyntax(q)
              kb == K \o TempAssumptions(ex)
              ordered == SelectProverStrategy(Recommended(g, oracle_predicates, client), provers)
              k == IndexOf(Z3Name, ordered)
              later == {j \in (k + 1)..Len(ordered) :
                           Prove(ordered[j], kb, g, env).success # "unknown"}
          IN  (/\ last'.op = "ask"
               /\ last'.arg = g
               /\ z3 = "ok"
               /\ env.z3raises
               /\ AskOrExplain(q, ex, env)
               /\ InSeq(Z3Name, last'.invoked))
              => /\ UsageCount(stats', Z3Name) = UsageCount(stats, Z3Name) + 1
                 /\ SuccessRate(stats', Z3Name)[1] * UsageCount(stats', Z3Name)
                       = Definitives(stats, Z3Name) * SuccessRate(stats', Z3Name)[2]
                 /\ k < Len(ordered)
                       => /\ Len(last'.invoked) > k
                          /\ last'.invoked[k + 1] = ordered[k + 1]
                 /\ IF later = {}
                    THEN /\ last'.success = "unknown"
                         /\ last'.reason = NoAnswer
                         /\ last'.invoked = ordered
                    ELSE LET j == CHOOSE i \in later : \A i2 \in later : i <= i2
                         IN  /\ last'.success = Prove(ordered[j], kb, g, env).success
                             /\ last'.reason = Prove(ordered[j], kb, g, env).reason
                             /\ last'.invoked = SubSeq(ordered, 1, j)]_vars

\* the solver raised and the Pattern prover, next in the order, proved the goal
C17_Witness ==
    /\ last.op = "ask"
    /\ z3 = "ok"
    /\ last.invoked = <<FunctionalName, Z3Name, PatternName>>
    /\ last.success = "proved"
    /\ last.reason.args # <<>>
    /\ last.reason.args[1] = <<PatternName>>
    /\ Definitives(stats, Z3Name) < UsageCount(stats, Z3Name)


\* C18: every prover invocation returns within its time budget of 10 seconds: no
\* invocation is still running after 10 seconds, and none has taken longer
C18_InvocationWithinBudget ==
    last.op = "prove" => duration <= 10


NoDuplicates(kb) == \A i \in 1..Len(kb), j \in 1..Len(kb) : kb[i] = kb[j] => i = j

\* C19: K holds no string twice in any state reached from the empty knowledge base
\* through the startup insertions, add_fact (by add_raw), learn_facts and retract_fact;
\* an add_fact that returns true has appended the new fact at the end of K, and for a
\* fact already present add_fact returns false and leaves K as it is
C19_KDuplicateFree ==
    [][NoDuplicates(K)
          => /\ NoDuplicates(K')
             /\ (last'.op = "add_raw" /\ last'.outcome = "added")
                   => /\ ~InSeq(last'.arg, K)
                      /\ K' = Append(K, last'.arg)
             /\ (last'.op = "add_raw" /\ last'.outcome = "present")
                   => /\ InSeq(last'.arg, K)
                      /\ K' = K
             /\ \A f \in AddInputs, env \in Envs :
                   (/\ last'.op = "add_raw"
                    /\ last'.outcome \in {"added", "present"}
                    /\ last'.arg = NormalizeAndCorrectSyntax(f)
                    /\ AddRaw(f, env))
                   => (last'.outcome = "present") = InSeq(last'.arg, K)]_vars

\* add_fact has returned false for a fact the user had added before
C19_Witness ==
    /\ last.op = "add_raw"
    /\ last.outcome = "present"
    /\ InSeq(last.arg, K)
    /\ K[Len(K)] = last.arg
    /\ Len(K) > Len(SystemFacts) + Len(functional_constraints)
    /\ NoDuplicates(K)


\* C20: retract_fact(f) returns true exactly when f was in K before the call; after a
\* call that returned true f is no longer in K and the other facts are in K in the
\* order they had; when f was absent K is unchanged
C20_RetractRemovesExactly ==
    [][last'.op = "retract"
          => /\ (last'.outcome = "removed") = InSeq(last'.arg, K)
             /\ last'.outcome = "removed"
                   => /\ ~InSeq(last'.arg, K')
                      /\ K' = SelectSeq(K, LAMBDA x : x # last'.arg)
             /\ last'.outcome # "removed"
                   => /\ last'.outcome = "absent"
                      /\ K' = K]_vars

\* a fact from the middle of K has been retracted
C20_Witness ==
    /\ last.op = "retract"
    /\ last.outcome = "removed"
    /\ last.arg = SystemFacts[2]
    /\ ~InSeq(last.arg, K)
    /\ K[1] = SystemFacts[1]
    /\ K[2] = SystemFacts[3]


\* a goal with a logical connective or a quantifier
NonAtomic(goal) == \E i \in 1..Len(goal) : goal[i] \in {"-", "->", "&", "|", "all"}

\* C21: for every goal that is not atomic (one that contains a negation, conjunction,
\* disjunction, implication or quantifier) the oracle adapter returns unknown, with the
\* reason that it supports atomic facts only, and neither reads nor writes its cache
C21_NonAtomicGoalRejected ==
    [][\A g \in OracleGoals, o \in OracleAnswers :
          (/\ last'.op = "wolfram_prove"
           /\ last'.arg = g
           /\ NonAtomic(g)
           /\ OracleProve(g, o))
          => /\ last'.success = "unknown"
             /\ last'.reason = Reason("WolframProver unterstützt nur atomare Fakten.", <<>>)
             /\ wcache' = wcache]_vars


\* C22 (as stated): PatternProver.prove returns proved exactly when the goal is an
\* element of the assumption list, refuted exactly when the syntactic negation of the
\* goal is an element of it, and unknown otherwise
C22_PatternVerdict ==
    last.op = "pattern_prove"
        => /\ (last.success = "proved") = InSeq(last.arg, K)
           /\ (last.success = "refuted") = InSeq(Negate(last.arg), K)
           /\ (last.success = "unknown") = (~InSeq(last.arg, K) /\ ~InSeq(Negate(last.arg), K))

\* C22 (amended): PatternProver.prove returns proved exactly when the goal is an element
\* of the assumption list, refuted exactly when the goal is not an element but its
\* syntactic negation is (the goal with a leading '-' added, or removed if it has one),
\* and unknown otherwise; its reason names the prover and the goal
C22_PatternVerdictMatchFirst ==
    last.op = "pattern_prove"
        => /\ (last.success = "proved") = InSeq(last.arg, K)
           /\ (last.success = "refuted") = (~InSeq(last.arg, K) /\ InSeq(Negate(last.arg), K))
           /\ (last.success = "unknown") = (~InSeq(last.arg, K) /\ ~InSeq(Negate(last.arg), K))
           /\ last.success # "unknown" => last.reason.args = <<<<PatternName>>, last.arg>>

\* the list holds the goal and its negation, and the verdict is proved
C22_Witness ==
    /\ last.op = "pattern_prove"
    /\ InSeq(last.arg, K)
    /\ InSeq(Negate(last.arg), K)
    /\ last.success = "proved"


\* C23: FunctionalConstraintProver.prove never returns proved: for every assumption list
\* and goal its verdict is refuted or unknown
C23_FunctionalNeverProves ==
    last.op = "functional_prove" => last.success \in {"refuted", "unknown"}

\* the goal is a functional atom that is itself among the assumptions, and the verdict
\* is unknown
C23_Witness ==
    /\ last.op = "functional_prove"
    /\ last.arg = HauptstadtParis
    /\ InSeq(last.arg, K)
    /\ last.success = "unknown"


\* a formula that is one atom P(t1, ..., tn) and its final period, and its parts
IsAtom(f) ==
    /\ Len(f) >= 5
    /\ f[1] \in PREDICATE
    /\ f[2] = "("
    /\ FirstClose(f, 3) = Len(f) - 1
    /\ f[Len(f)] = "."
AtomArgs(f) == SplitComma(SubSeq(f, 3, Len(f) - 2))

\* the atom a binds the leading arguments of the atom g to another last argument
OtherBinding(a, g) ==
    /\ a[1] = g[1]
    /\ Len(AtomArgs(a)) = Len(AtomArgs(g))
    /\ \A i \in 1..(Len(AtomArgs(g)) - 1) : AtomArgs(a)[i] = AtomArgs(g)[i]
    /\ AtomArgs(a)[Len(AtomArgs(a))] # AtomArgs(g)[Len(AtomArgs(g))]

\* C24: for a goal that is an atom P(a1..an), n >= 2, over a functional predicate,
\* FunctionalConstraintProver.prove returns refuted exactly when some assumption is an
\* atom P(a1..a(n-1), b) with b # an, and unknown otherwise; for a goal that is not an
\* atom over a functional predicate (negated, compound, quantified, or over another
\* predicate) it returns unknown
C24_FunctionalVerdict ==
    last.op = "functional_prove"
        => IF IsAtom(last.arg) /\ last.arg[1] \in functional_predicates
           THEN Len(AtomArgs(last.arg)) >= 2
                   => /\ (last.success = "refuted")
                            = (\E i \in 1..Len(K) : IsAtom(K[i]) /\ OtherBinding(K[i], last.arg))
                      /\ last.success \in {"refuted", "unknown"}
           ELSE last.success = "unknown"


\* C25: when saving the knowledge base fails, the artifact stored before is still on
\* disk with its previous contents
C25_FailedSaveKeepsArtifact ==
    [][(/\ last'.op = "save_kb"
        /\ last'.outcome # "ok"
        /\ disk.kind = "data")
          => disk' = disk]_vars


ReasonTextsNaming(name) ==
    CASE name = Z3Name -> {"Z3 hat das Ziel bewiesen.",
                           "Z3 konnte das Ziel nicht beweisen (Gegenmodell):{model}"}
      [] name = WolframName -> {"Wolfram: {answer}", "Wolfram: {answer} (aus Cache)"}
      [] OTHER -> {}

\* the reason contains the prover's name: interpolated into it, or spelled in its text
NamesProver(reason, name) ==
    \/ \E i \in 1..Len(reason.args) : reason.args[i] = <<name>>
    \/ reason.text \in ReasonTextsNaming(name)

\* C27: every definitive verdict comes with a reason that contains the name of the
\* prover that produced it (here: the oracle adapter)
C27_ReasonNamesProver ==
    (last.op = "wolfram_prove" /\ last.success # "unknown")
        => NamesProver(last.reason, WolframName)


\* a prover's answer is a verdict: it did not raise and is proved or refuted
Definitive(r) == ~r.raised /\ r.success # "unknown"

\* C28: on a cache miss verify_logical invokes the provers in the order the portfolio
\* manager returned, each at most once, up to and including the first one that gives a
\* definitive verdict, and returns that verdict with its reason; when none is
\* definitive all provers have been invoked and the result is unknown
C28_SequentialFirstDefinitive ==
    [][\A g \in Goals, env \in Envs :
          LET kb == K
              ordered == SelectProverStrategy(Recommended(g, oracle_predicates, client), provers)
              n == Len(last'.invoked)
          IN  (/\ last'.op = "verify_logical"
               /\ last'.arg = g
               /\ ~last'.hit
               /\ CoreVerifyLogical(g, env))
              => /\ n >= 1
                 /\ n <= Len(ordered)
                 /\ last'.invoked = SubSeq(ordered, 1, n)
                 /\ NoDuplicates(last'.invoked)
                 /\ \A i \in 1..(n - 1) : ~Definitive(Prove(ordered[i], kb, g, env))
                 /\ IF last'.success # "unknown"
                    THEN /\ Definitive(Prove(ordered[n], kb, g, env))
                         /\ last'.success = Prove(ordered[n], kb, g, env).success
                         /\ last'.reason = Prove(ordered[n], kb, g, env).reason
                    ELSE /\ n = Len(ordered)
                         /\ ~Definitive(Prove(ordered[n], kb, g, env))
                         /\ last'.reason = NoAnswer]_vars

\* the second prover of the order of the portfolio manager, which is the third of
\* self.provers, gave the verdict and the one after it was not invoked
C28_Witness ==
    /\ last.op = "verify_logical"
    /\ ~last.hit
    /\ provers = <<FunctionalName, PatternName, Z3Name>>
    /\ last.invoked = <<FunctionalName, Z3Name>>
    /\ last.success = "proved"

\* C29: select_prover_strategy returns a permutation of the available provers (as many
\* entries, the same provers, none twice); its first entries are the available provers
\* that the report recommends, in the order of the recommended list, and the entries
\* after them are the other available provers in the order they have in the list given
C29_StrategyIsPermutation ==
    last.op = "select_prover_strategy"
    => LET recommended == Recommended(last.arg, oracle_predicates, client)
           ordered == last.invoked
           k == Cardinality({n \in ProverNames : InSeq(n, recommended) /\ InSeq(n, provers)})
       IN  /\ Len(ordered) = Len(provers)
           /\ NoDuplicates(ordered)
           /\ \A n \in ProverNames : InSeq(n, ordered) <=> InSeq(n, provers)
           /\ k <= Len(ordered)
           /\ \A i \in 1..k : InSeq(ordered[i], recommended)
           /\ \A i \in 1..k, j \in 1..k :
                 i < j => IndexOf(ordered[i], recommended) < IndexOf(ordered[j], recommended)
           /\ \A i \in (k + 1)..Len(ordered) : ~InSeq(ordered[i], recommended)
           /\ \A i \in (k + 1)..Len(ordered), j \in (k + 1)..Len(ordered) :
                 i < j => IndexOf(ordered[i], provers) < IndexOf(ordered[j], provers)

\* two recommended provers were moved to the front in the recommended order and the
\* oracle adapter, which was not recommended, came after them
C29_Witness ==
    /\ last.op = "select_prover_strategy"
    /\ provers = <<PatternName, WolframName, Z3Name>>
    /\ last.invoked = <<Z3Name, PatternName, WolframName>>

\* C30: the recommended_provers of a report hold no name twice and are, in this order:
\* the oracle adapter, present exactly when the report's requires_oracle holds and a new
\* WolframProver has a client; the functional-constraint prover, always; the SMT
\* adapter, present exactly when the report's query_type is logic or mixed; the pattern
\* prover, always and as the last entry
C30_RecommendedOrder ==
    last.op = "analyze"
    => LET recommended == last.invoked
           pos(n) == IndexOf(n, recommended)
       IN  /\ NoDuplicates(recommended)
           /\ \A i \in 1..Len(recommended) : recommended[i] \in ProverNames
           /\ InSeq(WolframName, recommended) <=> (last.hit /\ client)
           /\ InSeq(FunctionalName, recommended)
           /\ InSeq(Z3Name, recommended) <=> last.outcome \in {"logic", "mixed"}
           /\ InSeq(PatternName, recommended)
           /\ InSeq(WolframName, recommended) => pos(WolframName) < pos(FunctionalName)
           /\ InSeq(Z3Name, recommended)
                 => pos(FunctionalName) < pos(Z3Name) /\ pos(Z3Name) < pos(PatternName)
           /\ pos(FunctionalName) < pos(PatternName)
           /\ pos(PatternName) = Len(recommended)

\* a report that requires the oracle, with the oracle available, recommends the oracle
\* adapter first and not the SMT adapter
C30_Witness ==
    /\ last.op = "analyze"
    /\ last.hit
    /\ client
    /\ last.outcome = "knowledge"
    /\ last.invoked = <<WolframName, FunctionalName, PatternName>>

\* C31: a prove call of the oracle adapter whose HTTP call fails or yields no usable
\* answer returns unknown and leaves the adapter's cache as it was; the cache differs
\* after a call only when the call asked the endpoint, extracted an answer and returned
\* proved, and then only in the entry of the call's query, which holds the verdict and
\* the reason returned and has the age 0
C31_OnlyAnswersAreCached ==
    [][\A g \in OracleGoals, o \in OracleAnswers :
          (/\ last'.op = "wolfram_prove"
           /\ last'.arg = g
           /\ last'.outcome = o
           /\ OracleProve(g, o))
          => LET query == SimpleTranslate(g)
                 r == WolframProve(g, client, wcache, o)
             IN  /\ (r.requested /\ o # "answer")
                       => last'.success = "unknown" /\ wcache' = wcache
                 /\ wcache' # wcache
                       => /\ r.requested
                          /\ o = "answer"
                          /\ last'.success = "proved"
                          /\ DOMAIN wcache' = DOMAIN wcache \cup {query}
                          /\ \A q \in DOMAIN wcache : q # query => wcache'[q] = wcache[q]
                          /\ wcache'[query] = [success |-> last'.success,
                                               text |-> last'.reason.text,
                                               args |-> last'.reason.args, age |-> 0]]_vars

\* a call that got no usable answer returned unknown and left the entry of another
\* query as the only one
C31_Witness ==
    /\ last.op = "wolfram_prove"
    /\ last.arg = HauptstadtVonFrankreich
    /\ last.outcome = "none"
    /\ last.success = "unknown"
    /\ DOMAIN wcache = {<<"capital", "of", "berlin">>}

\* C32: a prove call of the oracle adapter that passes the operator guard and finds an
\* entry for its query: if the entry is younger than cache_timeout, the call makes no
\* HTTP request, returns the entry's verdict with the entry's reason followed by
\* " (aus Cache)" and leaves the cache as it was; if the entry's age has reached
\* cache_timeout, the call makes an HTTP request and returns what that request gives:
\* proved with a new entry of age 0 when an answer is extracted, unknown otherwise
C32_FreshHitExpiredAsksAgain ==
    [][\A g \in OracleGoals, o \in OracleAnswers :
          (/\ last'.op = "wolfram_prove"
           /\ last'.arg = g
           /\ last'.outcome = o
           /\ OracleProve(g, o))
          => LET query == SimpleTranslate(g)
                 r == WolframProve(g, client, wcache, o)
             IN  (/\ \A i \in 1..Len(g) : g[i] \notin {"->", "&", "|", "all"}
                  /\ query # <<>>
                  /\ query \in DOMAIN wcache)
                 => IF wcache[query].age < cache_timeout
                    THEN /\ ~r.requested
                         /\ last'.success = wcache[query].success
                         /\ last'.reason = Reason(wcache[query].text \o " (aus Cache)",
                                                  wcache[query].args)
                         /\ wcache' = wcache
                    ELSE /\ r.requested
                         /\ last'.reason # Reason(wcache[query].text \o " (aus Cache)",
                                                  wcache[query].args)
                         /\ IF o = "answer"
                            THEN last'.success = "proved" /\ wcache'[query].age = 0
                            ELSE last'.success = "unknown" /\ wcache' = wcache]_vars

\* the query's entry had reached the timeout, the new request failed, and the call
\* returned unknown instead of the entry
C32_Witness ==
    /\ last.op = "wolfram_prove"
    /\ last.outcome = "error"
    /\ last.success = "unknown"
    /\ SimpleTranslate(last.arg) \in DOMAIN wcache
    /\ wcache[SimpleTranslate(last.arg)].age = cache_timeout

\* C38: no prove call of the oracle adapter returns refuted (each returns proved or
\* unknown), and every entry of the adapter's cache holds the verdict proved
C38_OracleNeverRefutes ==
    /\ last.op = "wolfram_prove" => last.success \in {"proved", "unknown"}
    /\ \A q \in DOMAIN wcache : wcache[q].success = "proved"

\* the endpoint gave no usable answer for a query while the cache held two entries
C38_Witness ==
    /\ last.op = "wolfram_prove"
    /\ last.outcome = "none"
    /\ ~last.hit
    /\ last.success = "unknown"
    /\ Cardinality(DOMAIN wcache) = 2

\* C33: the complexity level of a formula is high if it contains a quantifier or more
\* than two binary connectives (conjunction, disjunction, implication), low if it is
\* one atomic predicate followed by a period, and medium in every other case
C33_ComplexityLevel ==
    last.op = "estimate_complexity"
    => LET f == last.arg
       IN  last.outcome =
              IF CountTokens(f, {"all"}) > 0 \/ CountTokens(f, {"&", "|", "->"}) > 2
              THEN "high"
              ELSE IF IsAtom(f) THEN "low"
              ELSE "medium"

\* every equation of the expression e has as its operands integer constants named like
\* variables that a quantifier around the equation binds
RECURSIVE EqualitiesBound(_, _)
EqualitiesBound(e, bound) ==
    CASE e.kind = "forall" -> EqualitiesBound(e.body, bound \cup {e.var})
      [] e.kind \in {"->", "|", "&"} ->
            EqualitiesBound(e.left, bound) /\ EqualitiesBound(e.right, bound)
      [] e.kind = "not" -> EqualitiesBound(e.arg, bound)
      [] e.kind = "eq" -> /\ e.left.kind = "int" /\ e.left.name \in {<<v>> : v \in bound}
                          /\ e.right.kind = "int" /\ e.right.name \in {<<v>> : v \in bound}
      [] OTHER -> TRUE

\* the formula holds an equation between two identifiers written in parentheses
ParenthesisedEquation(f) ==
    \E i \in 1..Len(f) :
       /\ f[i] = "(" /\ Tok(f, i + 1) \in VAR /\ Tok(f, i + 2) = "="
       /\ Tok(f, i + 3) \in VAR /\ Tok(f, i + 4) = ")"

\* C34: the SMT adapter translates a universally quantified formula whose body holds an
\* equation between quantified variables, written in parentheses as in the shipped
\* functional-dependency axioms, into a quantified expression in which the operands of
\* the equation are the variables bound by the quantifiers around it
C34_EqualityOverBoundVariables ==
    (last.op = "z3_translate" /\ ParenthesisedEquation(last.arg))
    => /\ last.outcome = "forall"
       /\ EqualitiesBound(ParseHakgalFormulaToZ3Expr(last.arg, {}), {})

\* C35: every add_fact or retract_fact that changes K leaves the proof cache empty with
\* both counters at zero; every verify_logical call is one lookup and adds one to
\* exactly one of the counters (to hits when it answers from the cache, to misses when
\* it does not); no other step changes the counters; so hits + misses is the number of
\* lookups since the last clear, and hit_rate lies between 0 and 100
C35_CountersCountLookups ==
    [][/\ K' # K => cache' = <<>> /\ hits' = 0 /\ misses' = 0
       /\ last'.op = "verify_logical"
             => /\ hits' + misses' = hits + misses + 1
                /\ hits' = hits + (IF last'.hit THEN 1 ELSE 0)
       /\ (last'.op # "verify_logical" /\ K' = K) => hits' = hits /\ misses' = misses
       /\ HitRate(hits', misses')[1] >= 0
       /\ HitRate(hits', misses')[1] <= 100 * HitRate(hits', misses')[2]]_vars

\* a retract_fact that removed a fact has left both counters at zero
C35_Witness ==
    /\ last.op = "retract_fact"
    /\ last.outcome = "true"
    /\ K # <<>>
    /\ cache = <<>>
    /\ hits = 0
    /\ misses = 0

\* C37: an add_fact of a fact that is in K and a retract_fact of a fact that is not in K
\* return false and leave K, the entries of the proof cache and its hit and miss
\* counters as they were
C37_NoOpKeepsProofCache ==
    [][\A f \in CoreFacts :
          /\ (InSeq(f, K) /\ CoreAddFact(f))
                => /\ last'.outcome = "false"
                   /\ K' = K /\ cache' = cache /\ hits' = hits /\ misses' = misses
          /\ (~InSeq(f, K) /\ CoreRetractFact(f))
                => /\ last'.outcome = "false"
                   /\ K' = K /\ cache' = cache /\ hits' = hits /\ misses' = misses]_vars

\* a retract_fact of an absent fact has left an entry and a counted hit behind
C37_Witness ==
    /\ last.op = "retract_fact"
    /\ last.outcome = "false"
    /\ cache # <<>>
    /\ hits = 1
    /\ misses >= 1

\* what the claim says of a step that calls verify_logical: every prover invoked has its
\* usage_count raised by exactly one, every prover not invoked keeps its record, and a
\* call answered from the proof cache invokes no prover and leaves the statistics
InvocationsCounted ==
    /\ \A n \in ProverNames :
          IF InSeq(n, last'.invoked)
          THEN UsageCount(stats', n) = UsageCount(stats, n) + 1
          ELSE /\ UsageCount(stats', n) = UsageCount(stats, n)
               /\ SuccessRate(stats', n) = SuccessRate(stats, n)
               /\ (n \in DOMAIN stats'.usage) = (n \in DOMAIN stats.usage)
    /\ last'.hit => (last'.invoked = <<>> /\ stats' = stats)

\* C36 (as stated): within one process the portfolio statistics change only in a step
\* that calls verify_logical and misses the proof cache; in such a step each prover
\* invoked has its usage_count raised by exactly one, and the provers not invoked, and
\* all provers on a cache hit, keep their records
C36_StatsChangeOnlyByInvocation ==
    [][restarts' = restarts
          => /\ stats' # stats => (last'.op = "ask" /\ ~last'.hit /\ last'.invoked # <<>>)
             /\ last'.op = "ask" => InvocationsCounted]_vars

\* C36 (amended): within one process the portfolio statistics change only in a step that
\* calls verify_logical and misses the proof cache, and in load_kb, which replaces them
\* by the records of the persisted artifact when there is one; in a verify_logical step
\* each prover invoked has its usage_count raised by exactly one, and the provers not
\* invoked, and all provers on a cache hit, keep their records
C36_StatsChangeByInvocationOrLoad ==
    [][restarts' = restarts
          => /\ stats' # stats
                   => \/ last'.op = "ask" /\ ~last'.hit /\ last'.invoked # <<>>
                      \/ last'.op = "load_kb" /\ disk.kind = "data"
                                              /\ stats' = disk.portfolio_stats
             /\ last'.op = "ask" => InvocationsCounted]_vars

\* a call that missed the cache was decided by the second prover of its order: the two
\* provers invoked are counted once more and the pattern prover, not invoked, is not
C36_Witness ==
    /\ last.op = "ask"
    /\ ~last.hit
    /\ last.invoked = <<FunctionalName, Z3Name>>
    /\ UsageCount(stats, FunctionalName) = 2
    /\ UsageCount(stats, Z3Name) = 2
    /\ UsageCount(stats, PatternName) = 0

====
